---- MODULE Spec2Model ----
(***************************************************************************)
(* A model of the backtesting engine (runBacktest and its helpers) and of   *)
(* the data fetch of the /backtest route that calls it.                    *)
(* JavaScript numbers are modelled as exact rationals [n, d] in lowest     *)
(* terms; dates are day numbers whose order is the order of the ISO date   *)
(* strings the engine sorts.                                               *)
(***************************************************************************)
EXTENDS Integers, Sequences, FiniteSets, TLC

VARIABLES
  strategy,            \* the strategy argument: [actions |-> <<action, ...>>]
  stockData,           \* the stockData argument: symbol -> sequence of bars
  run,                 \* which call of runBacktest on these arguments is in progress
  firstResult,         \* what the first call returned (kept by the caller)
  pc,                  \* position inside runBacktest
  tradingDates,        \* sorted union of the bar dates
  dateIndex,           \* index of the tradingDates.forEach callback (0-based, as in the code)
  symIdx,              \* position in Object.keys(stockData)
  actIdx,              \* position in strategy.actions
  totalPortfolioValue, \* the date callback's local, read by calculateAmount
  cash,                \* portfolio.cash
  positions,           \* portfolio.positions
  positionCost,        \* portfolio.positionCost
  transactions,        \* portfolio.transactions
  valueHistory,        \* portfolio.valueHistory
  metrics,             \* portfolio.metrics
  positionAvgCost,     \* portfolio.positionAvgCost
  previousData,        \* previousData
  historyData,         \* historyData
  dayTradingPositions, \* dayTradingPositions
  insufficientCashLogged, \* how many "Insufficient cash" lines the call has logged
  result,              \* what the call produced: "none", "error", "ok" or "threw"
  fnCall,              \* a direct call of a pure helper: the function and its arguments
  fnResult,            \* what that call returned
  stockSymbols,        \* /backtest: the symbols to fetch, without duplicates
  batchStart,          \* /backtest: the fetch loop's index i
  handlerPc,           \* /backtest: position of the handler
  fetchPhase,          \* /backtest: per symbol, how far its fetch callback has run
  handlerStockData,    \* /backtest: the handler's stockData object
  runBacktestArg       \* /backtest: the stockData runBacktest was called with

vars == <<strategy, stockData, run, firstResult, pc, tradingDates, dateIndex,
          symIdx, actIdx, totalPortfolioValue, cash, positions, positionCost,
          transactions, valueHistory, metrics, positionAvgCost, previousData,
          historyData, dayTradingPositions, insufficientCashLogged, result,
          fnCall, fnResult, stockSymbols, batchStart, handlerPc, fetchPhase,
          handlerStockData, runBacktestArg>>

\* the state of a direct helper call, and of the route handler
pure == <<fnCall, fnResult>>
route == <<stockSymbols, batchStart, handlerPc, fetchPhase, handlerStockData,
           runBacktestArg>>

\* what a step of runBacktest cannot touch
outside == <<pure, route>>

inputs == <<strategy, stockData>>

portfolio == <<cash, positions, positionCost, transactions, valueHistory>>

(***************************************************************************)
(* Exact arithmetic                                                        *)
(***************************************************************************)
Abs(x) == IF x < 0 THEN -x ELSE x

RECURSIVE GCD(_, _)
GCD(a, b) == IF b = 0 THEN a ELSE GCD(b, a % b)

Rat(n, d) ==
  LET s == IF d < 0 THEN -1 ELSE 1
      g == GCD(Abs(n), Abs(d))
  IN  [n |-> (s * n) \div g, d |-> (s * d) \div g]

R(i) == [n |-> i, d |-> 1]

\* sums and products cancel common factors first, comparisons compare the
\* integer parts first, so that intermediate values stay small
RAdd(a, b) ==
  LET g == GCD(a.d, b.d)
  IN  Rat(a.n * (b.d \div g) + b.n * (a.d \div g), (a.d \div g) * b.d)
RNeg(a) == [n |-> -a.n, d |-> a.d]
RSub(a, b) == RAdd(a, RNeg(b))
RMul(a, b) ==
  LET g1 == GCD(Abs(a.n), b.d)
      g2 == GCD(Abs(b.n), a.d)
  IN  IF a.n = 0 \/ b.n = 0 THEN [n |-> 0, d |-> 1]
      ELSE [n |-> (a.n \div g1) * (b.n \div g2), d |-> (a.d \div g2) * (b.d \div g1)]
RInv(a) == IF a.n < 0 THEN [n |-> -a.d, d |-> -a.n] ELSE [n |-> a.d, d |-> a.n]
RDiv(a, b) == RMul(a, RInv(b))
RLt(a, b) ==
  LET fa == a.n \div a.d
      fb == b.n \div b.d
      g == GCD(a.d, b.d)
  IN  IF fa # fb THEN fa < fb
      ELSE (a.n % a.d) * (b.d \div g) < (b.n % b.d) * (a.d \div g)
RLe(a, b) == a = b \/ RLt(a, b)
RAbs(a) == [n |-> Abs(a.n), d |-> a.d]
RMin(a, b) == IF RLe(a, b) THEN a ELSE b
RZero == R(0)

(***************************************************************************)
(* Inputs: bars, amount rules, conditions, actions                         *)
(***************************************************************************)
\* a bar with all its fields
FullBar(d, o, h, l, c, v) ==
  [date |-> d, open |-> R(o), high |-> R(h), low |-> R(l), close |-> R(c), volume |-> R(v)]

\* a bar whose range is its open and close, on a volume of 1000
Bar(d, o, c) == FullBar(d, o, IF o < c THEN c ELSE o, IF o < c THEN o ELSE c, c, 1000)

\* action.amount: present is false when the action has no amount at all,
\* hasValue is false when amount.value is not a number
AmountRule(t, v) == [present |-> TRUE, type |-> t, hasValue |-> TRUE, value |-> R(v)]
NoAmount == [present |-> FALSE, type |-> "none", hasValue |-> FALSE, value |-> RZero]
TypeOnly(t) == [present |-> TRUE, type |-> t, hasValue |-> FALSE, value |-> RZero]

\* a missing params field is the falsy 0 / "" that `x || default` replaces
NoParams ==
  [threshold |-> RZero, direction |-> "", gapThreshold |-> RZero, gapDirection |-> "",
   period |-> 0, fastPeriod |-> 0, slowPeriod |-> 0, signalPeriod |-> 0, lookback |-> 0,
   valueType |-> "", multiplier |-> RZero, variation |-> RZero,
   percent |-> FALSE, slope |-> FALSE]

Cond(t) == [type |-> t, metric |-> "", operator |-> "", value |-> RZero, days |-> 0,
            direction |-> "", pattern |-> "", threshold |-> RZero,
            indicator |-> "", params |-> NoParams, period |-> 0]

Simple(m, op, v) == [Cond("simple") EXCEPT !.metric = m, !.operator = op, !.value = R(v)]
Consecutive(k, dir) == [Cond("consecutive") EXCEPT !.days = k, !.direction = dir]
Pattern(p, th) == [Cond("pattern") EXCEPT !.pattern = p, !.threshold = R(th)]
Technical(ind, prm, op, v) ==
  [Cond("technical") EXCEPT !.indicator = ind, !.params = prm, !.operator = op, !.value = R(v)]

Action(t, tf, c, a) == [type |-> t, timeframe |-> tf, condition |-> c, amount |-> a]

(***************************************************************************)
(* Pure helpers of the engine                                              *)
(***************************************************************************)
calculatePercentChangeOfCurrent(current, previous) ==
  IF previous = RZero THEN RZero
  ELSE RMul(RDiv(RSub(current, previous), current), R(100))

calculatePercentChange(current, previous) ==
  IF previous = RZero THEN RZero
  ELSE RMul(RDiv(RSub(current, previous), previous), R(100))

checkSimpleCondition(value, operator, threshold) ==
  CASE operator = "greater_than" -> RLt(threshold, value)
    [] operator = "greater_than_equal" -> RLe(threshold, value)
    [] operator = "less_than" -> RLt(value, threshold)
    [] operator = "less_than_equal" -> RLe(value, threshold)
    [] operator = "equal" -> value = threshold
    [] OTHER -> FALSE

\* priceHistory.slice(-days) for days >= 1
LastBars(priceHistory, days) ==
  SubSeq(priceHistory, Len(priceHistory) - days + 1, Len(priceHistory))

ConsecutiveStrictFirst(priceHistory, days, direction) ==
  IF Len(priceHistory) < days + 1 THEN FALSE
  ELSE LET recentPrices == LastBars(priceHistory, days + 1)
       IN  \A i \in 2..Len(recentPrices) :
             LET current == recentPrices[i].close
                 previous == recentPrices[i - 1].close
             IN  ~ \/ (direction = "up" /\ RLe(current, previous))
                   \/ (direction = "down" /\ RLe(previous, current))
                   \/ (direction = "unchanged" /\ current # previous)

ConsecutiveNonStrict(priceHistory, days, direction) ==
  IF Len(priceHistory) < days THEN FALSE
  ELSE LET recentPrices == LastBars(priceHistory, days)
       IN  \A i \in 2..Len(recentPrices) :
             LET current == recentPrices[i].close
                 previous == recentPrices[i - 1].close
             IN  ~ \/ (direction = "up" /\ RLt(current, previous))
                   \/ (direction = "down" /\ RLt(previous, current))
                   \/ (direction = "unchanged" /\ current # previous)

checkConsecutiveCondition(priceHistory, days, direction) ==
  IF Len(priceHistory) < days THEN FALSE
  ELSE LET recentPrices == LastBars(priceHistory, days)
       IN  \A i \in 2..Len(recentPrices) :
             LET current == recentPrices[i].close
                 previous == recentPrices[i - 1].close
             IN  ~ \/ (direction = "up" /\ RLe(current, previous))
                   \/ (direction = "down" /\ RLe(previous, current))
                   \/ (direction = "unchanged" /\ current # previous)

\* detectGaps(data, minGapPercent)[i] for the 1-based index i; present is false
\* for the null entries
NoGap == [present |-> FALSE, value |-> RZero, type |-> ""]

detectGaps(data, minGapPercent, i) ==
  IF i < 2 \/ i > Len(data) THEN NoGap
  ELSE LET prevClose == data[i - 1].close
           currentOpen == data[i].open
           gapPercent == RMul(RDiv(RSub(currentOpen, prevClose), prevClose), R(100))
       IN  IF RLe(minGapPercent, RAbs(gapPercent))
           THEN [present |-> TRUE, value |-> gapPercent,
                 type |-> IF RLt(RZero, gapPercent) THEN "up" ELSE "down"]
           ELSE NoGap

\* x || dflt on a number
OrDefault(x, dflt) == IF x = RZero THEN dflt ELSE x
\* x || dflt on a string
OrDefaultStr(x, dflt) == IF x = "" THEN dflt ELSE x

\* detectDayTradingSignals(data, params)[i]: whether entry i is a signal
detectDayTradingSignals(data, params, i) ==
  LET gapThreshold == OrDefault(params.gapThreshold, R(3))
      gapDirection == OrDefaultStr(params.gapDirection, "both")
      gap == detectGaps(data, RZero, i)
  IN  /\ gap.present
      /\ RLe(gapThreshold, RAbs(gap.value))
      /\ \/ gapDirection = "both"
         \/ (gapDirection = "up" /\ gap.type = "up")
         \/ (gapDirection = "down" /\ gap.type = "down")

(***************************************************************************)
(* Technical indicators.  Each function of the indicators module returns an *)
(* array as long as the data; the operator of the same name gives the       *)
(* element at the 0-based index i of that array.  Prices are positive.      *)
(* A loop that carries a value from one index to the next is a recursion    *)
(* on the index; the carried value is bound as the one element of a set, so *)
(* that it is computed once per index; a value that is read several times   *)
(* is the argument of an operator rather than a LET definition.             *)
(***************************************************************************)
\* the values an array element or indicatorValue can be
NaN == [kind |-> "NaN", v |-> RZero]
Undefined == [kind |-> "undefined", v |-> RZero]
NullValue == [kind |-> "null", v |-> RZero]
Val(x) == [kind |-> "num", v |-> x]

isNaN(x) == x.kind \in {"NaN", "undefined"}

\* data[i] for the 0-based index i, and whether data has it
El(data, i) == data[i + 1]
InRange(data, i) == 0 <= i /\ i < Len(data)

Max(a, b) == IF a > b THEN a ELSE b

RMax(a, b) == IF RLt(a, b) THEN b ELSE a

RECURSIVE SumSeq(_, _, _)
\* q[from] + ... + q[to] of a sequence of numbers
SumSeq(q, from, to) ==
  IF from > to THEN RZero
  ELSE CHOOSE sum \in {RAdd(before, q[to]) : before \in {SumSeq(q, from, to - 1)}} : TRUE

Closes(data) == [k \in 1..Len(data) |-> data[k].close]

calculateSMA(data, period, i) ==
  IF ~InRange(data, i) THEN Undefined
  ELSE IF i < period - 1 THEN NaN
  ELSE Val(RDiv(SumSeq(Closes(data), i - period + 2, i + 1), R(period)))

RECURSIVE emaAt(_, _, _)
\* result[i] of calculateEMA for period - 1 <= i, on the closes q
emaAt(q, period, i) ==
  IF i = period - 1 THEN RDiv(SumSeq(q, 1, period), R(period))
  ELSE CHOOSE ema \in {RAdd(RMul(RSub(q[i + 1], prev), Rat(2, period + 1)), prev) :
                         prev \in {emaAt(q, period, i - 1)}} : TRUE

\* the seed loop reads data[0..period-1].close: a TypeError on shorter data
calculateEMAThrows(q, period) == Len(q) < period

calculateEMA(q, period, i) ==
  IF ~(0 <= i /\ i < Len(q)) THEN Undefined
  ELSE IF i < period - 1 THEN NaN
  ELSE Val(emaAt(q, period, i))

\* changes[j]
priceChangeAt(data, j) == RSub(El(data, j + 1).close, El(data, j).close)

RECURSIVE rsiAverages(_, _, _)
\* avgGain and avgLoss when result[i] is computed, period <= i
rsiAverages(data, period, i) ==
  IF i = period
  THEN LET gains == [j \in 1..period |->
                       IF RLt(RZero, priceChangeAt(data, j - 1))
                       THEN priceChangeAt(data, j - 1) ELSE RZero]
           losses == [j \in 1..period |->
                        IF RLt(RZero, priceChangeAt(data, j - 1))
                        THEN RZero ELSE RAbs(priceChangeAt(data, j - 1))]
       IN  [avgGain |-> RDiv(SumSeq(gains, 1, period), R(period)),
            avgLoss |-> RDiv(SumSeq(losses, 1, period), R(period))]
  ELSE LET change == priceChangeAt(data, i - 1)
           gain == IF RLt(RZero, change) THEN change ELSE RZero
           loss == IF RLt(change, RZero) THEN RAbs(change) ELSE RZero
       IN  CHOOSE averages \in
             {[avgGain |-> RDiv(RAdd(RMul(prev.avgGain, R(period - 1)), gain), R(period)),
               avgLoss |-> RDiv(RAdd(RMul(prev.avgLoss, R(period - 1)), loss), R(period))] :
                prev \in {rsiAverages(data, period, i - 1)}} : TRUE

\* 100 - 100 / (1 + rs)
rsiOf(averages) ==
  RSub(R(100),
       RDiv(R(100),
            RAdd(R(1), RDiv(averages.avgGain,
                            IF averages.avgLoss = RZero THEN Rat(1, 1000)
                            ELSE averages.avgLoss))))

calculateRSI(data, period, i) ==
  IF ~InRange(data, i) THEN Undefined
  ELSE IF Len(data) <= period \/ i < period THEN NaN
  ELSE Val(rsiOf(rsiAverages(data, period, i)))

\* the first index at which both EMAs of the MACD are numbers
macdStart(fastPeriod, slowPeriod) == Max(fastPeriod, slowPeriod) - 1

\* calculateMACD raises when one of its three calculateEMA calls does: the
\* third is on the MACD values that are numbers
calculateMACDThrows(data, fastPeriod, slowPeriod, signalPeriod) ==
  \/ calculateEMAThrows(Closes(data), fastPeriod)
  \/ calculateEMAThrows(Closes(data), slowPeriod)
  \/ Len(data) - macdStart(fastPeriod, slowPeriod) < signalPeriod

macdLine(data, fastPeriod, slowPeriod, i) ==
  IF ~InRange(data, i) THEN Undefined
  ELSE IF i < macdStart(fastPeriod, slowPeriod) THEN NaN
  ELSE Val(RSub(emaAt(Closes(data), fastPeriod, i), emaAt(Closes(data), slowPeriod, i)))

\* macdData.filter(item => !isNaN(item.close)), as closes
macdNumbers(data, fastPeriod, slowPeriod) ==
  [t \in 1..(Len(data) - macdStart(fastPeriod, slowPeriod)) |->
     macdLine(data, fastPeriod, slowPeriod, macdStart(fastPeriod, slowPeriod) + t - 1).v]

signalLine(data, fastPeriod, slowPeriod, signalPeriod, i) ==
  IF ~InRange(data, i) THEN Undefined
  ELSE IF i < macdStart(fastPeriod, slowPeriod) THEN NaN
  ELSE LET signalIndex == i - macdStart(fastPeriod, slowPeriod)
       IN  IF signalIndex >= signalPeriod - 1
           THEN calculateEMA(macdNumbers(data, fastPeriod, slowPeriod), signalPeriod,
                             signalIndex - (signalPeriod - 1))
           ELSE NaN

histogramOf(value, signal) ==
  IF ~isNaN(value) /\ ~isNaN(signal) THEN Val(RSub(value.v, signal.v)) ELSE NaN

histogram(data, fastPeriod, slowPeriod, signalPeriod, i) ==
  IF ~InRange(data, i) THEN Undefined
  ELSE histogramOf(macdLine(data, fastPeriod, slowPeriod, i),
                   signalLine(data, fastPeriod, slowPeriod, signalPeriod, i))

\* Math.sqrt on the square of a rational
ISqrt(n) == CHOOSE k \in 0..n : k * k = n
RSqrt(x) == [n |-> ISqrt(x.n), d |-> ISqrt(x.d)]

NoBands == [upper |-> NaN, middle |-> NaN, lower |-> NaN, width |-> NaN]

\* the sum of the squared differences from the middle band over the window
sumSquaredDiff(data, period, i, middle) ==
  SumSeq([j \in 1..period |-> RMul(RSub(El(data, i - (j - 1)).close, middle),
                                    RSub(El(data, i - (j - 1)).close, middle))],
         1, period)

bandsFrom(middle, upper, lower) ==
  [upper |-> Val(upper), middle |-> Val(middle), lower |-> Val(lower),
   width |-> Val(RMul(RDiv(RSub(upper, lower), middle), R(100)))]

bandsAround(middle, spread) == bandsFrom(middle, RAdd(middle, spread), RSub(middle, spread))

bandsAt(data, period, multiplier, i, middle) ==
  bandsAround(middle,
              RMul(multiplier, RSqrt(RDiv(sumSquaredDiff(data, period, i, middle), R(period)))))

calculateBollingerBands(data, period, multiplier, i) ==
  IF ~InRange(data, i)
  THEN [upper |-> Undefined, middle |-> Undefined, lower |-> Undefined, width |-> Undefined]
  ELSE IF i < period - 1 THEN NoBands
  ELSE bandsAt(data, period, multiplier, i, calculateSMA(data, period, i).v)

widthChangeOf(width, before) ==
  IF ~isNaN(width) /\ ~isNaN(before) /\ before.v # RZero
  THEN Val(RMul(RDiv(RSub(width.v, before.v), before.v), R(100)))
  ELSE NaN

calculateBollingerBandsWidthChange(data, period, multiplier, lookback, i) ==
  IF ~InRange(data, i) THEN Undefined
  ELSE IF i < period - 1 + lookback THEN NaN
  ELSE widthChangeOf(calculateBollingerBands(data, period, multiplier, i).width,
                     calculateBollingerBands(data, period, multiplier, i - lookback).width)

RECURSIVE obvAt(_, _)
obvAt(data, i) ==
  IF i = 0 THEN RZero
  ELSE CHOOSE obv \in
         {IF RLt(El(data, i - 1).close, El(data, i).close)
          THEN RAdd(prev, El(data, i).volume)
          ELSE IF RLt(El(data, i).close, El(data, i - 1).close)
          THEN RSub(prev, El(data, i).volume)
          ELSE prev : prev \in {obvAt(data, i - 1)}} : TRUE

calculateOBV(data, i) ==
  IF i = 0 THEN Val(RZero)
  ELSE IF ~InRange(data, i) THEN Undefined
  ELSE Val(obvAt(data, i))

\* obvPercentChange - priceChange over the period
divergenceOf(close, closeBefore, obv, obvBefore) ==
  RSub(IF obvBefore # RZero THEN RMul(RDiv(RSub(obv, obvBefore), RAbs(obvBefore)), R(100))
       ELSE RZero,
       RMul(RDiv(RSub(close, closeBefore), closeBefore), R(100)))

calculateOBVDivergence(data, period, i) ==
  IF ~InRange(data, i) THEN Undefined
  ELSE IF i < period THEN NaN
  ELSE Val(divergenceOf(El(data, i).close, El(data, i - period).close,
                        obvAt(data, i), obvAt(data, i - period)))

\* the percentage by which close deviates from the moving average ma
deviationOf(close, ma) ==
  IF ~isNaN(ma) THEN Val(RMul(RDiv(RSub(close, ma.v), ma.v), R(100))) ELSE NaN

calculatePriceRelativeToMA(data, period, i) ==
  IF ~InRange(data, i) THEN Undefined
  ELSE IF i >= period - 1 THEN deviationOf(El(data, i).close, calculateSMA(data, period, i))
  ELSE NaN

\* trueRanges[i] for 1 <= i
trueRangeOf(high, low, prevClose) ==
  RMax(RSub(high, low), RMax(RAbs(RSub(high, prevClose)), RAbs(RSub(low, prevClose))))

trueRange(data, i) == trueRangeOf(El(data, i).high, El(data, i).low, El(data, i - 1).close)

RECURSIVE atrAt(_, _, _)
\* result[i] of calculateATR for period <= i
atrAt(data, period, i) ==
  IF i = period
  THEN RDiv(SumSeq([j \in 1..period |-> trueRange(data, j)], 1, period), R(period))
  ELSE CHOOSE atr \in {RDiv(RAdd(RMul(prev, R(period - 1)), trueRange(data, i)), R(period)) :
                         prev \in {atrAt(data, period, i - 1)}} : TRUE

calculateATR(data, period, i) ==
  IF ~InRange(data, i) THEN Undefined
  ELSE IF i < period THEN NaN
  ELSE Val(atrAt(data, period, i))

changeOf(atr, before) ==
  IF before # RZero THEN Val(RMul(RDiv(RSub(atr, before), before), R(100))) ELSE NaN

calculateATRChange(data, period, lookback, i) ==
  IF ~InRange(data, i) THEN Undefined
  ELSE IF i < period + lookback THEN NaN
  ELSE changeOf(atrAt(data, period, i), atrAt(data, period, i - lookback))

typicalPrice(data, j) ==
  RDiv(RAdd(RAdd(El(data, j).high, El(data, j).low), El(data, j).close), R(3))

\* the money flow of the window ending at i on the days the typical price
\* rose (up) or fell
moneyFlow(data, period, i, up) ==
  SumSeq([j \in 1..i |->
            IF /\ j > i - period
               /\ IF up THEN RLt(typicalPrice(data, j - 1), typicalPrice(data, j))
                  ELSE RLt(typicalPrice(data, j), typicalPrice(data, j - 1))
            THEN RMul(typicalPrice(data, j), El(data, j).volume)
            ELSE RZero],
         1, i)

mfiOf(positiveFlow, negativeFlow) ==
  IF negativeFlow = RZero THEN R(100)
  ELSE RSub(R(100), RDiv(R(100), RAdd(R(1), RDiv(positiveFlow, negativeFlow))))

calculateMFI(data, period, i) ==
  IF ~InRange(data, i) THEN Undefined
  ELSE IF i < period THEN NaN
  ELSE Val(mfiOf(moneyFlow(data, period, i, TRUE), moneyFlow(data, period, i, FALSE)))

\* detectDoubleBottom(data, lookbackPeriod, maxBottomVariation)[i]; the
\* section is data[i - lookbackPeriod .. i], j and k are 0-based in it
detectDoubleBottom(data, lookbackPeriod, maxBottomVariation, i) ==
  /\ InRange(data, i)
  /\ Len(data) >= lookbackPeriod
  /\ i >= lookbackPeriod
  /\ LET section(j) == El(data, i - lookbackPeriod + j)
         localMins == {j \in 1..(lookbackPeriod - 1) :
                         /\ RLt(section(j).low, section(j - 1).low)
                         /\ RLt(section(j).low, section(j + 1).low)}
         middleHigh(b, c) ==
           CHOOSE h \in {section(j).high : j \in b..(c - 1)} :
             \A j \in b..(c - 1) : RLe(section(j).high, h)
         currentPrice == section(lookbackPeriod).close
     IN  \E b, c \in localMins :
           /\ c - b >= 10
           /\ RLe(RMul(RAbs(RDiv(RSub(section(c).low, section(b).low), section(b).low)), R(100)),
                  maxBottomVariation)
           /\ RLe(R(5), RMul(RDiv(RSub(middleHigh(b, c), section(b).low), section(b).low), R(100)))
           /\ RLt(middleHigh(b, c), currentPrice)

calculateMeanReversion(data, period, i) ==
  IF ~InRange(data, i) THEN Undefined
  ELSE IF i >= period - 1 THEN deviationOf(El(data, i).close, calculateSMA(data, period, i))
  ELSE NaN

(***************************************************************************)
(* checkTechnicalCondition and checkCondition                              *)
(***************************************************************************)
\* the two ways the switch leaves checkTechnicalCondition early
ReturnsFalse == [kind |-> "returnsFalse", v |-> RZero]
Throws == [kind |-> "throws", v |-> RZero]

\* x || dflt on a whole number
OrDefaultInt(x, dflt) == IF x = 0 THEN dflt ELSE x

Flag(b) == IF b THEN Val(R(1)) ELSE Val(RZero)

macdValueOf(macdValueType, direction, line, signal, currHist, prevHist) ==
  CASE macdValueType = "line" -> line
    [] macdValueType = "signal" -> signal
    [] macdValueType = "histogram" -> currHist
    [] macdValueType = "crossover" ->
         IF isNaN(currHist) \/ isNaN(prevHist) THEN ReturnsFalse
         ELSE IF direction = "bullish"
         THEN Flag(RLt(prevHist.v, RZero) /\ RLt(RZero, currHist.v))
         ELSE IF direction = "bearish"
         THEN Flag(RLt(RZero, prevHist.v) /\ RLt(currHist.v, RZero))
         ELSE NullValue
    [] OTHER -> NullValue

macdOn(priceHistory, fastPeriod, slowPeriod, signalPeriod, macdValueType, direction) ==
  IF calculateMACDThrows(priceHistory, fastPeriod, slowPeriod, signalPeriod) THEN Throws
  ELSE macdValueOf(
         macdValueType, direction,
         macdLine(priceHistory, fastPeriod, slowPeriod, Len(priceHistory) - 1),
         signalLine(priceHistory, fastPeriod, slowPeriod, signalPeriod, Len(priceHistory) - 1),
         histogram(priceHistory, fastPeriod, slowPeriod, signalPeriod, Len(priceHistory) - 1),
         histogram(priceHistory, fastPeriod, slowPeriod, signalPeriod, Len(priceHistory) - 2))

macdValue(params, priceHistory) ==
  macdOn(priceHistory, OrDefaultInt(params.fastPeriod, 12), OrDefaultInt(params.slowPeriod, 26),
         OrDefaultInt(params.signalPeriod, 9), OrDefaultStr(params.valueType, "histogram"),
         params.direction)

\* calculatePriceRelativeToMA returns an array and has no third parameter:
\* result.values is the array's values method and result.crossovers is
\* undefined, so the crossover branch indexes undefined for the two directions
\* and reads undefined from a function for any other direction
maRelativeValue(params, priceHistory) ==
  LET period == OrDefaultInt(params.period, 20)
      valueType == OrDefaultStr(params.valueType, "value")
      direction == OrDefaultStr(params.direction, "none")
  IN  IF valueType = "crossover"
      THEN IF direction \in {"bullish", "bearish"} THEN Throws ELSE Undefined
      ELSE calculatePriceRelativeToMA(priceHistory, period, Len(priceHistory) - 1)

\* upper === lower is false for two NaN, and the quotient is NaN then
percentB(priceHistory, upper, lower) ==
  IF Len(priceHistory) = 0 THEN Throws
  ELSE IF isNaN(upper) THEN NaN
  ELSE IF upper = lower THEN Val(Rat(1, 2))
  ELSE Val(RDiv(RSub(priceHistory[Len(priceHistory)].close, lower.v), RSub(upper.v, lower.v)))

bbandsValueOf(valueType, bbands, widthChange, priceHistory) ==
  CASE valueType = "upper" -> bbands.upper
    [] valueType = "lower" -> bbands.lower
    [] valueType = "width" -> bbands.width
    [] valueType = "width_change" -> widthChange
    [] valueType = "percent_b" -> percentB(priceHistory, bbands.upper, bbands.lower)
    [] OTHER -> NullValue

bbandsOn(priceHistory, period, multiplier, lookback, valueType) ==
  bbandsValueOf(
    valueType,
    calculateBollingerBands(priceHistory, period, multiplier, Len(priceHistory) - 1),
    calculateBollingerBandsWidthChange(priceHistory, period, multiplier, lookback,
                                       Len(priceHistory) - 1),
    priceHistory)

bbandsValue(params, priceHistory) ==
  bbandsOn(priceHistory, OrDefaultInt(params.period, 20), OrDefault(params.multiplier, R(2)),
           OrDefaultInt(params.lookback, 5), OrDefaultStr(params.valueType, "percent_b"))

volumeChangeOf(currentVolume, previousVolume) ==
  IF previousVolume = RZero THEN ReturnsFalse
  ELSE Val(RMul(RDiv(RSub(currentVolume, previousVolume), previousVolume), R(100)))

volumeChangeValue(priceHistory) ==
  IF Len(priceHistory) < 2 THEN ReturnsFalse
  ELSE volumeChangeOf(priceHistory[Len(priceHistory)].volume,
                      priceHistory[Len(priceHistory) - 1].volume)

obvValueOf(params, obvValueType, currentOBV, previousOBV, divergence) ==
  IF obvValueType = "value" THEN currentOBV
  ELSE IF obvValueType = "slope" \/ params.slope
  THEN IF ~isNaN(currentOBV) /\ ~isNaN(previousOBV) /\ previousOBV.v # RZero
       THEN Val(RMul(RDiv(RSub(currentOBV.v, previousOBV.v), RAbs(previousOBV.v)), R(100)))
       ELSE NullValue
  ELSE IF obvValueType = "divergence"
  THEN IF params.direction = "positive"
       THEN Flag(~isNaN(divergence) /\ RLt(RZero, divergence.v))
       ELSE IF params.direction = "negative"
       THEN Flag(~isNaN(divergence) /\ RLt(divergence.v, RZero))
       ELSE divergence
  ELSE NullValue

obvValue(params, priceHistory) ==
  obvValueOf(params, OrDefaultStr(params.valueType, "value"),
             calculateOBV(priceHistory, Len(priceHistory) - 1),
             calculateOBV(priceHistory, Len(priceHistory) - 2),
             calculateOBVDivergence(priceHistory, OrDefaultInt(params.period, 14),
                                    Len(priceHistory) - 1))

atrValueOf(params, atrValueType, priceHistory, atr, change) ==
  IF atrValueType = "value"
  THEN IF params.percent
       THEN IF Len(priceHistory) = 0 THEN Throws
            ELSE IF isNaN(atr) THEN NaN
            ELSE Val(RMul(RDiv(atr.v, priceHistory[Len(priceHistory)].close), R(100)))
       ELSE atr
  ELSE IF atrValueType = "change" THEN change
  ELSE NullValue

atrValue(params, priceHistory) ==
  atrValueOf(params, OrDefaultStr(params.valueType, "value"), priceHistory,
             calculateATR(priceHistory, OrDefaultInt(params.period, 14), Len(priceHistory) - 1),
             calculateATRChange(priceHistory, OrDefaultInt(params.period, 14),
                                OrDefaultInt(params.lookback, 5), Len(priceHistory) - 1))

gapValueOfAsFlag(direction, currentGap) ==
  IF ~currentGap.present THEN ReturnsFalse
  ELSE IF \/ (direction = "up" /\ currentGap.type # "up")
          \/ (direction = "down" /\ currentGap.type # "down")
  THEN NullValue
  ELSE Val(R(1))

gapValueOf(direction, currentGap) ==
  IF ~currentGap.present THEN ReturnsFalse
  ELSE IF \/ (direction = "up" /\ currentGap.type # "up")
          \/ (direction = "down" /\ currentGap.type # "down")
  THEN NullValue
  ELSE Val(currentGap.value)

gapValue(params, priceHistory) ==
  gapValueOf(params.direction,
             detectGaps(priceHistory, OrDefault(params.threshold, R(1)), Len(priceHistory)))

\* indicatorValue when the switch is left, or the way the switch leaves the
\* function
indicatorValue(condition, priceHistory) ==
  LET params == condition.params
      last == Len(priceHistory) - 1
  IN  CASE condition.indicator = "day_trading_signal" ->
             Flag(detectDayTradingSignals(
                    priceHistory,
                    [params EXCEPT !.gapThreshold = OrDefault(params.gapThreshold, R(3)),
                                   !.gapDirection = OrDefaultStr(params.gapDirection, "down")],
                    Len(priceHistory)))
        [] condition.indicator = "rsi" ->
             calculateRSI(priceHistory, OrDefaultInt(params.period, 14), last)
        [] condition.indicator = "macd" -> macdValue(params, priceHistory)
        [] condition.indicator = "ma_relative" -> maRelativeValue(params, priceHistory)
        [] condition.indicator = "bbands" -> bbandsValue(params, priceHistory)
        [] condition.indicator = "volume_change" -> volumeChangeValue(priceHistory)
        [] condition.indicator = "obv" -> obvValue(params, priceHistory)
        [] condition.indicator = "atr" -> atrValue(params, priceHistory)
        [] condition.indicator = "mfi" ->
             calculateMFI(priceHistory, OrDefaultInt(params.period, 14), last)
        [] condition.indicator = "gap" -> gapValue(params, priceHistory)
        [] condition.indicator = "double_bottom" ->
             Flag(detectDoubleBottom(priceHistory, OrDefaultInt(params.lookback, 40),
                                     OrDefault(params.variation, R(3)), last))
        [] condition.indicator = "mean_reversion" ->
             calculateMeanReversion(priceHistory, OrDefaultInt(params.period, 20), last)
        [] OTHER -> ReturnsFalse

\* the value is compared with 1, not by the condition's operator
ResolvesDirectly(condition) ==
  \/ condition.indicator \in {"macd", "ma_relative"} /\ condition.params.valueType = "crossover"
  \/ condition.indicator \in {"double_bottom", "day_trading_signal"}
  \/ /\ condition.indicator = "obv"
     /\ condition.params.valueType = "divergence"
     /\ condition.params.direction \in {"positive", "negative"}

resolveNaNAsZero(condition, value) ==
  IF value.kind \in {"returnsFalse", "throws"} THEN FALSE
  ELSE IF ResolvesDirectly(condition) THEN value.v = R(1)
  ELSE checkSimpleCondition(value.v, condition.operator, condition.value)

\* the part of checkTechnicalCondition after the switch; FALSE stands in when
\* the switch raises
resolve(condition, value) ==
  IF value.kind # "num" THEN FALSE
  ELSE IF ResolvesDirectly(condition) THEN value.v = R(1)
  ELSE checkSimpleCondition(value.v, condition.operator, condition.value)

checkTechnicalCondition(condition, priceHistory) ==
  resolve(condition, indicatorValue(condition, priceHistory))

\* whether checkTechnicalCondition raises a TypeError
checkTechnicalConditionThrows(condition, priceHistory) ==
  indicatorValue(condition, priceHistory).kind = "throws"

DayTradePatterns == {"day_trade_gap_down", "day_trade_gap_up", "day_trade_gap_any"}

\* the names every object inherits: patternMap[name] is a function for them,
\* with neither indicator nor params
InheritedNames == {"constructor", "toString", "hasOwnProperty", "valueOf"}

\* the technical condition built from patternMap[condition.pattern]
patternMap(condition) ==
  LET tech(ind, prm) == [Cond("technical") EXCEPT !.indicator = ind, !.params = prm,
                                                  !.operator = "equal", !.value = R(1)]
      th1 == OrDefault(condition.threshold, R(1))
      th3 == OrDefault(condition.threshold, R(3))
      period == OrDefaultInt(condition.period, 14)
  IN  CASE condition.pattern = "double_bottom" -> tech("double_bottom", condition.params)
        [] condition.pattern = "gap_down" ->
             tech("gap", [NoParams EXCEPT !.direction = "down", !.threshold = th1])
        [] condition.pattern = "gap_up" ->
             tech("gap", [NoParams EXCEPT !.direction = "up", !.threshold = th1])
        [] condition.pattern = "day_trade_gap_down" ->
             tech("day_trading_signal", [NoParams EXCEPT !.gapDirection = "down", !.gapThreshold = th3])
        [] condition.pattern = "day_trade_gap_up" ->
             tech("day_trading_signal", [NoParams EXCEPT !.gapDirection = "up", !.gapThreshold = th3])
        [] condition.pattern = "day_trade_gap_any" ->
             tech("day_trading_signal", [NoParams EXCEPT !.gapDirection = "both", !.gapThreshold = th3])
        [] condition.pattern = "obv_positive_divergence" ->
             tech("obv", [NoParams EXCEPT !.valueType = "divergence", !.direction = "positive",
                                          !.period = period])
        [] condition.pattern = "obv_negative_divergence" ->
             tech("obv", [NoParams EXCEPT !.valueType = "divergence", !.direction = "negative",
                                          !.period = period])
        [] condition.pattern \in InheritedNames -> tech("undefined", NoParams)

MappedPatternsWithoutGaps ==
  {"double_bottom", "obv_positive_divergence", "obv_negative_divergence"}
  \cup DayTradePatterns \cup InheritedNames

MappedPatterns ==
  {"double_bottom", "gap_down", "gap_up", "obv_positive_divergence", "obv_negative_divergence"}
  \cup DayTradePatterns \cup InheritedNames

\* checkCondition(condition, data): data is {priceHistory} or {value}
checkCondition(condition, priceHistory, value) ==
  CASE condition.type = "consecutive" ->
         checkConsecutiveCondition(priceHistory, condition.days, condition.direction)
    [] condition.type = "pattern" ->
         IF condition.pattern \in MappedPatterns
         THEN checkTechnicalCondition(patternMap(condition), priceHistory)
         ELSE FALSE
    [] condition.type = "technical" -> checkTechnicalCondition(condition, priceHistory)
    [] OTHER -> checkSimpleCondition(value, condition.operator, condition.value)

\* whether checkCondition raises a TypeError
checkConditionThrows(condition, priceHistory) ==
  CASE condition.type = "pattern" ->
         /\ condition.pattern \in MappedPatterns
         /\ checkTechnicalConditionThrows(patternMap(condition), priceHistory)
    [] condition.type = "technical" -> checkTechnicalConditionThrows(condition, priceHistory)
    [] OTHER -> FALSE

SharesAt(dollars, currentPrice) ==
  IF RLt(RZero, currentPrice) THEN RDiv(dollars, currentPrice) ELSE RZero

calculateAmountUnfloored(amountRule, portfolioValue, currentPrice) ==
  IF ~amountRule.present
  THEN [dollars |-> R(100), shares |-> SharesAt(R(100), currentPrice)]
  ELSE
    LET value == IF amountRule.hasValue THEN amountRule.value
                 ELSE IF amountRule.type = "percentage" THEN R(5) ELSE R(100)
        amountType == IF amountRule.type = "none" THEN "fixed_amount" ELSE amountRule.type
    IN  CASE amountType = "percentage" ->
               LET dollars == RDiv(RMul(portfolioValue, value), R(100))
               IN  [dollars |-> dollars, shares |-> SharesAt(dollars, currentPrice)]
          [] amountType = "shares" ->
               [dollars |-> RMul(value, currentPrice), shares |-> value]
          [] OTHER -> [dollars |-> value, shares |-> SharesAt(value, currentPrice)]

calculateAmount(amountRule, portfolioValue, currentPrice) ==
  IF ~amountRule.present
  THEN [dollars |-> R(100), shares |-> SharesAt(R(100), currentPrice)]
  ELSE
    LET value == IF amountRule.hasValue THEN amountRule.value
                 ELSE IF amountRule.type = "percentage" THEN R(5) ELSE R(100)
        amountType == IF amountRule.type = "none" THEN "fixed_amount" ELSE amountRule.type
        res == CASE amountType = "percentage" ->
                      LET dollars == RDiv(RMul(portfolioValue, value), R(100))
                      IN  [dollars |-> dollars, shares |-> SharesAt(dollars, currentPrice)]
                 [] amountType = "shares" ->
                      [dollars |-> RMul(value, currentPrice), shares |-> value]
                 [] OTHER -> [dollars |-> value, shares |-> SharesAt(value, currentPrice)]
    IN  IF RLe(res.dollars, RZero) \/ RLe(res.shares, RZero)
        THEN [dollars |-> R(100), shares |-> SharesAt(R(100), currentPrice)]
        ELSE res

(***************************************************************************)
(* Lookups                                                                 *)
(***************************************************************************)
SymbolOrder == <<"A", "B">>

\* Object.keys(stockData): insertion order
Keys(data) == SelectSeq(SymbolOrder, LAMBDA s : s \in DOMAIN data)

RECURSIVE SortedSeq(_)
\* Array.from(set).sort()
SortedSeq(S) ==
  IF S = {} THEN <<>>
  ELSE LET m == CHOOSE x \in S : \A y \in S : x <= y
       IN  <<m>> \o SortedSeq(S \ {m})

AllDatesOfFirstSymbol(data) ==
  IF Keys(data) = <<>> THEN {}
  ELSE {data[Keys(data)[1]][i].date : i \in DOMAIN data[Keys(data)[1]]}

AllDates(data) ==
  UNION {{data[s][i].date : i \in DOMAIN data[s]} : s \in DOMAIN data}

NullBar == FullBar(0, 0, 0, 0, 0, 0)

\* series.find(bar => bar.date === date)
FindBar(series, date) ==
  IF \E i \in DOMAIN series : series[i].date = date
  THEN [found |-> TRUE,
        bar |-> series[CHOOSE i \in DOMAIN series :
                         /\ series[i].date = date
                         /\ \A j \in DOMAIN series : series[j].date = date => i <= j]]
  ELSE [found |-> FALSE, bar |-> NullBar]

\* obj[key] || dflt on a map of numbers
Get(f, k) == IF k \in DOMAIN f THEN f[k] ELSE RZero
Put(f, k, v) == [x \in DOMAIN f \cup {k} |-> IF x = k THEN v ELSE f[x]]

RECURSIVE SumOver(_, _, _)
\* sum over the keys S of quantity times the price table entry
SumOver(S, qty, price) ==
  IF S = {} THEN RZero
  ELSE LET s == CHOOSE x \in S : TRUE
       IN  RAdd(RMul(qty[s], price[s]), SumOver(S \ {s}, qty, price))

EmptyMap == [x \in {} |-> RZero]

(***************************************************************************)
(* runBacktest: state at the call                                           *)
(***************************************************************************)
initialCash == 10000

HistoryCap == 30

NoMetrics == [startDate |-> 0, endDate |-> 0, totalReturn |-> RZero,
              maxDrawdown |-> RZero, sharpeRatio |-> "0", valuesConsistent |-> FALSE]

\* the locals runBacktest creates on every call
FreshLocals ==
  /\ pc = "start"
  /\ tradingDates = <<>>
  /\ dateIndex = 0
  /\ symIdx = 0
  /\ actIdx = 0
  /\ totalPortfolioValue = RZero
  /\ cash = R(initialCash)
  /\ positions = EmptyMap
  /\ positionCost = EmptyMap
  /\ transactions = <<>>
  /\ valueHistory = <<>>
  /\ metrics = NoMetrics
  /\ positionAvgCost = EmptyMap
  /\ previousData = [x \in {} |-> NullBar]
  /\ historyData = [x \in {} |-> <<>>]
  /\ dayTradingPositions = <<>>
  /\ insufficientCashLogged = 0
  /\ result = "none"

(***************************************************************************)
(* runBacktest: the locals of the date, symbol and action callbacks         *)
(***************************************************************************)
date == tradingDates[dateIndex + 1]
symbol == Keys(stockData)[symIdx]
action == strategy.actions[actIdx]

NotFound == [found |-> FALSE, bar |-> NullBar]

currentBar == FindBar(stockData[symbol], date)

previousBar ==
  IF dateIndex > 0 THEN FindBar(stockData[symbol], tradingDates[dateIndex]) ELSE NotFound

\* Dates are the days of the first quarter of 2024 (1 = Monday 2024-01-01, 32 =
\* the 1st of February, 61 = the 1st of March), so the ISO week of day d is the
\* one below and the year never changes; the process runs in UTC, where the
\* local date getWeekNumber reads is the date of the string
getWeekNumber(d) == ((d - 1) \div 7) + 1
getUTCMonth(d) == IF d <= 31 THEN 0 ELSE IF d <= 60 THEN 1 ELSE 2
getUTCFullYear(d) == 2024

Null == [null |-> TRUE, v |-> RZero]
Num(x) == [null |-> FALSE, v |-> x]

dailyPercentChange == calculatePercentChange(currentBar.bar.close, previousBar.bar.close)

isWeekBoundary ==
  \/ dateIndex = 0
  \/ getUTCFullYear(date) # getUTCFullYear(tradingDates[dateIndex])
  \/ getWeekNumber(date) # getWeekNumber(tradingDates[dateIndex])

isMonthBoundary ==
  \/ dateIndex = 0
  \/ getUTCFullYear(date) # getUTCFullYear(tradingDates[dateIndex])
  \/ getUTCMonth(date) # getUTCMonth(tradingDates[dateIndex])

\* the percent change against the bar k trading dates back, null when there is none
LookbackChange(k) ==
  IF dateIndex >= k
  THEN LET old == FindBar(stockData[symbol], tradingDates[dateIndex - k + 1])
       IN  IF old.found THEN Num(calculatePercentChange(currentBar.bar.close, old.bar.close))
           ELSE Null
  ELSE Null

weeklyPercentChange == LookbackChange(5)
monthlyPercentChange == LookbackChange(20)

shouldProcessOnBoundary ==
  \/ action.timeframe = "daily"
  \/ (action.timeframe = "weekly" /\ isWeekBoundary)
  \/ (action.timeframe = "monthly" /\ isMonthBoundary)

\* whether the action's timeframe is due on this date
shouldProcess ==
  \/ action.timeframe = "daily"
  \/ (action.timeframe = "weekly" /\ isWeekBoundary /\ ~weeklyPercentChange.null)
  \/ (action.timeframe = "monthly" /\ isMonthBoundary /\ ~monthlyPercentChange.null)

\* the history a technical condition needs before it is evaluated
minDataRequiredNone(condition) == 0

minDataRequired(condition) ==
  LET params == condition.params
  IN  CASE condition.indicator = "rsi" -> OrDefaultInt(params.period, 14) * 2
        [] condition.indicator = "macd" ->
             Max(OrDefaultInt(params.fastPeriod, 12), OrDefaultInt(params.slowPeriod, 26)) + 10
        [] condition.indicator = "ma_relative" -> OrDefaultInt(params.period, 20) + 5
        [] condition.indicator = "bbands" -> OrDefaultInt(params.period, 20) + 5
        [] condition.indicator = "obv" -> 5
        [] condition.indicator = "atr" -> OrDefaultInt(params.period, 14) + 5
        [] condition.indicator = "mfi" -> OrDefaultInt(params.period, 14) + 5
        [] condition.indicator = "volume_change" -> 2
        [] OTHER -> 200

\* the value a simple condition is checked on; null stands for undefined here
simpleValue ==
  CASE action.condition.metric = "percent_change" ->
         CASE action.timeframe = "daily" -> Num(dailyPercentChange)
           [] action.timeframe = "weekly" -> weeklyPercentChange
           [] action.timeframe = "monthly" -> monthlyPercentChange
           [] OTHER -> Null
    [] action.condition.metric = "price" -> Num(currentBar.bar.close)
    [] OTHER -> Null

conditionMet ==
  LET condition == action.condition
      history == historyData[symbol]
      simple == condition.type \notin {"consecutive", "pattern", "technical"}
  IN  IF condition.type = "technical" /\ Len(history) < minDataRequired(condition) THEN FALSE
      ELSE IF simple /\ simpleValue.null THEN FALSE
      ELSE checkCondition(condition, history, IF simple THEN simpleValue.v ELSE RZero)

Triggered == shouldProcess /\ conditionMet

\* the evaluation of the action's condition raises a TypeError
conditionThrows ==
  LET condition == action.condition
      history == historyData[symbol]
  IN  CASE condition.type = "pattern" -> checkConditionThrows(condition, history)
        [] condition.type = "technical" ->
             /\ Len(history) >= minDataRequired(condition)
             /\ checkConditionThrows(condition, history)
        [] OTHER -> FALSE

isDayTrading ==
  action.condition.type = "pattern" /\ action.condition.pattern \in DayTradePatterns

\* currentBar.open || currentBar.close
OpenOrClose(bar) == IF bar.open = RZero THEN bar.close ELSE bar.open

priceForCalculation ==
  IF isDayTrading THEN OpenOrClose(currentBar.bar) ELSE currentBar.bar.close

amountData == calculateAmount(action.amount, totalPortfolioValue, priceForCalculation)

Tx(type, price, quantity, amount, posAfter, costAfter) ==
  [date |-> date, symbol |-> symbol, type |-> type, price |-> price,
   quantity |-> quantity, amount |-> amount,
   amountType |-> action.amount.type, amountValue |-> action.amount.value,
   positionAfter |-> posAfter, costBasisAfter |-> costAfter,
   conditionDetails |-> action.condition,
   isDayTrading |-> FALSE, isEodExit |-> FALSE,
   entryPrice |-> RZero, exitPrice |-> RZero, profitLoss |-> RZero]

(***************************************************************************)
(* runBacktest: control                                                    *)
(***************************************************************************)
AdvanceSymbol ==
  /\ actIdx' = 0
  /\ IF symIdx < Len(Keys(stockData))
     THEN pc' = "symbol" /\ symIdx' = symIdx + 1
     ELSE pc' = "eod" /\ symIdx' = 0

\* the end of the action callback: the next action, or the end of the symbol
\* callback (previousData[symbol] = currentBar)
EndAction ==
  IF actIdx < Len(strategy.actions)
  THEN /\ actIdx' = actIdx + 1
       /\ UNCHANGED <<pc, symIdx, previousData>>
  ELSE /\ previousData' = Put(previousData, symbol, currentBar.bar)
       /\ AdvanceSymbol

StartNoEmptyCheck ==
  /\ pc = "start"
  /\ tradingDates' = SortedSeq(AllDates(stockData))
  /\ IF tradingDates' = <<>>
     THEN /\ result' = "threw"
          /\ pc' = "done"
          /\ UNCHANGED metrics
     ELSE /\ metrics' = [metrics EXCEPT !.startDate = tradingDates'[1],
                                        !.endDate = tradingDates'[Len(tradingDates')]]
          /\ pc' = "mark"
          /\ UNCHANGED result
  /\ UNCHANGED <<outside, inputs, run, firstResult, dateIndex, symIdx, actIdx,
                 totalPortfolioValue, portfolio, positionAvgCost, previousData,
                 historyData, dayTradingPositions, insufficientCashLogged>>

\* the engine computes the trading dates and returns the error value when
\* there is none
Start ==
  /\ pc = "start"
  /\ tradingDates' = SortedSeq(AllDates(stockData))
  /\ IF tradingDates' = <<>>
     THEN /\ result' = "error"
          /\ pc' = "done"
          /\ UNCHANGED metrics
     ELSE /\ metrics' = [metrics EXCEPT !.startDate = tradingDates'[1],
                                        !.endDate = tradingDates'[Len(tradingDates')]]
          /\ pc' = "mark"
          /\ UNCHANGED result
  /\ UNCHANGED <<outside, inputs, run, firstResult, dateIndex, symIdx, actIdx,
                 totalPortfolioValue, portfolio, positionAvgCost, previousData,
                 historyData, dayTradingPositions, insufficientCashLogged>>

\* the symbols of portfolio.positions that have a bar on the date
Marked == {s \in DOMAIN positions : FindBar(stockData[s], date).found}

ValuePointOfInitialCash(d, positionValue) ==
  [date |-> d, value |-> RAdd(cash, positionValue), cash |-> R(initialCash),
   positions |-> positionValue]

ValuePoint(d, positionValue) ==
  [date |-> d, value |-> RAdd(cash, positionValue), cash |-> cash,
   positions |-> positionValue]

\* the head of the date callback: mark to market and record the ValuePoint
MarkToMarket ==
  /\ pc = "mark"
  /\ LET closes == [s \in Marked |-> FindBar(stockData[s], date).bar.close]
         totalPositionValue == SumOver(Marked, positions, closes)
     IN  /\ totalPortfolioValue' = RAdd(cash, totalPositionValue)
         /\ valueHistory' = Append(valueHistory, ValuePoint(date, totalPositionValue))
  /\ pc' = "symbol"
  /\ symIdx' = 1
  /\ UNCHANGED <<outside, inputs, run, firstResult, tradingDates, dateIndex, actIdx, cash,
                 positions, positionCost, transactions, metrics, positionAvgCost,
                 previousData, historyData, dayTradingPositions,
                 insufficientCashLogged, result>>

PushUncapped(history, bar) == Append(history, bar)

PushCapped(history, bar) ==
  LET h == Append(history, bar)
  IN  IF Len(h) > HistoryCap THEN Tail(h) ELSE h

History(s) == IF s \in DOMAIN historyData THEN historyData[s] ELSE <<>>

\* the head of the symbol callback, up to the loop over the actions
SymbolStep ==
  /\ pc = "symbol"
  /\ IF ~currentBar.found
     THEN /\ AdvanceSymbol
          /\ UNCHANGED <<previousData, historyData>>
     ELSE IF ~previousBar.found
     THEN /\ previousData' = Put(previousData, symbol, currentBar.bar)
          /\ historyData' = [x \in DOMAIN historyData \cup {symbol} |->
                               IF x = symbol THEN Append(History(symbol), currentBar.bar)
                               ELSE historyData[x]]
          /\ AdvanceSymbol
     ELSE /\ historyData' = [x \in DOMAIN historyData \cup {symbol} |->
                               IF x = symbol THEN PushCapped(History(symbol), currentBar.bar)
                               ELSE historyData[x]]
          /\ IF Len(strategy.actions) = 0
             THEN /\ previousData' = Put(previousData, symbol, currentBar.bar)
                  /\ AdvanceSymbol
             ELSE /\ pc' = "action"
                  /\ actIdx' = 1
                  /\ UNCHANGED <<symIdx, previousData>>
  /\ UNCHANGED <<outside, inputs, run, firstResult, tradingDates, dateIndex,
                 totalPortfolioValue, portfolio, metrics, positionAvgCost,
                 dayTradingPositions, insufficientCashLogged, result>>

(***************************************************************************)
(* runBacktest: order execution                                            *)
(***************************************************************************)
DtpHas(dtp, s) == \E i \in DOMAIN dtp : dtp[i].symbol = s
\* dayTradingPositions[symbol] = entry keeps the key's place when it exists
DtpPut(dtp, e) ==
  IF DtpHas(dtp, e.symbol)
  THEN [i \in DOMAIN dtp |-> IF dtp[i].symbol = e.symbol THEN e ELSE dtp[i]]
  ELSE Append(dtp, e)
\* delete dayTradingPositions[symbol]
DtpDel(dtp, s) == SelectSeq(dtp, LAMBDA e : e.symbol # s)

FrameOrder ==
  UNCHANGED <<outside, inputs, run, firstResult, tradingDates, dateIndex, totalPortfolioValue,
              valueHistory, metrics, positionAvgCost, historyData,
              insufficientCashLogged>>

buyAllowedWithAnyCash == RLt(RZero, cash)

buyAllowedAlways == TRUE

buyAllowedWithinPortfolioValue == RLe(amountData.dollars, totalPortfolioValue)

\* the buy branch's guard
buyAllowed == RLe(amountData.dollars, cash)

buyCostOfLastBuy(currentQuantity, quantity, dollars) ==
  LET oldCost == Get(positionCost, symbol)
  IN  IF RLt(currentQuantity, RZero)
      THEN LET coverRatio == RMin(R(1), RDiv(quantity, RAbs(currentQuantity)))
           IN  RMul(oldCost, RSub(R(1), coverRatio))
      ELSE dollars

\* positionCost[symbol] after a buy of quantity shares for dollars
buyCost(currentQuantity, quantity, dollars) ==
  LET oldCost == Get(positionCost, symbol)
  IN  IF RLt(currentQuantity, RZero)
      THEN LET coverRatio == RMin(R(1), RDiv(quantity, RAbs(currentQuantity)))
           IN  RMul(oldCost, RSub(R(1), coverRatio))
      ELSE RAdd(oldCost, dollars)

\* the state changes of the buy branch up to the transaction record
BuyUpdates ==
  LET quantity == amountData.shares
      currentQuantity == Get(positions, symbol)
  IN  /\ positions' = Put(positions, symbol, RAdd(currentQuantity, quantity))
      /\ positionCost' = Put(positionCost, symbol,
                             buyCost(currentQuantity, quantity, amountData.dollars))
      /\ cash' = RSub(cash, amountData.dollars)

buyRecordTypedBuy ==
  LET quantity == amountData.shares
      currentQuantity == Get(positions, symbol)
      transactionPrice == IF isDayTrading THEN OpenOrClose(currentBar.bar)
                          ELSE currentBar.bar.close
      transactionAmount == IF isDayTrading THEN RMul(quantity, transactionPrice)
                           ELSE amountData.dollars
  IN  [Tx("buy", transactionPrice, quantity, transactionAmount,
          RAdd(currentQuantity, quantity),
          buyCost(currentQuantity, quantity, amountData.dollars))
       EXCEPT !.isDayTrading = isDayTrading]

\* the record of the buy branch
buyRecord ==
  LET quantity == amountData.shares
      currentQuantity == Get(positions, symbol)
      transactionType == IF RLt(currentQuantity, RZero) THEN "cover_short" ELSE "buy"
      transactionPrice == IF isDayTrading THEN OpenOrClose(currentBar.bar)
                          ELSE currentBar.bar.close
      transactionAmount == IF isDayTrading THEN RMul(quantity, transactionPrice)
                           ELSE amountData.dollars
  IN  [Tx(transactionType, transactionPrice, quantity, transactionAmount,
          RAdd(currentQuantity, quantity),
          buyCost(currentQuantity, quantity, amountData.dollars))
       EXCEPT !.isDayTrading = isDayTrading]

\* a buy whose cash suffices: positions, cost basis, cash, the record, and the
\* day-trading entry of a day-trading pattern
ExecBuy ==
  /\ pc = "action"
  /\ Triggered
  /\ action.type = "buy"
  /\ buyAllowed
  /\ action.amount.present
  /\ BuyUpdates
  /\ transactions' = Append(transactions, buyRecord)
  /\ dayTradingPositions' =
       IF isDayTrading
       THEN DtpPut(dayTradingPositions,
                   [symbol |-> symbol, entryDate |-> date,
                    entryPrice |-> OpenOrClose(currentBar.bar),
                    quantity |-> amountData.shares])
       ELSE dayTradingPositions
  /\ EndAction
  /\ UNCHANGED result
  /\ FrameOrder

\* a buy the cash does not cover: only logged
DropBuy ==
  /\ pc = "action"
  /\ Triggered
  /\ action.type = "buy"
  /\ ~buyAllowed
  /\ insufficientCashLogged' = insufficientCashLogged + 1
  /\ EndAction
  /\ UNCHANGED <<portfolio, dayTradingPositions, result>>
  /\ UNCHANGED <<outside, inputs, run, firstResult, tradingDates, dateIndex, totalPortfolioValue,
                 valueHistory, metrics, positionAvgCost, historyData>>

sellSizingUncapped ==
  IF action.amount.type = "shares"
  THEN [quantity |-> amountData.shares,
        amount |-> RMul(amountData.shares, currentBar.bar.close)]
  ELSE [quantity |-> amountData.shares, amount |-> amountData.dollars]

\* the sell branch's quantity and dollars
sellSizing ==
  LET currentQuantity == Get(positions, symbol)
      close == currentBar.bar.close
  IN  IF action.amount.type = "shares"
      THEN LET q == IF RLt(RZero, currentQuantity)
                    THEN RMin(amountData.shares, currentQuantity)
                    ELSE amountData.shares
           IN  [quantity |-> q, amount |-> RMul(q, close)]
      ELSE IF RLt(RZero, currentQuantity)
      THEN LET a == RMin(amountData.dollars, RMul(currentQuantity, close))
           IN  [quantity |-> RDiv(a, close), amount |-> a]
      ELSE [quantity |-> amountData.shares, amount |-> amountData.dollars]

sellCost ==
  LET currentQuantity == Get(positions, symbol)
      oldCost == Get(positionCost, symbol)
  IN  IF RLt(RZero, currentQuantity)
      THEN LET sellRatio == RMin(R(1), RDiv(sellSizing.quantity, currentQuantity))
           IN  RSub(oldCost, RMul(oldCost, sellRatio))
      ELSE RSub(oldCost, sellSizing.amount)

ExecSell ==
  /\ pc = "action"
  /\ Triggered
  /\ action.type = "sell"
  /\ action.amount.present
  /\ LET currentQuantity == Get(positions, symbol)
         newQuantity == RSub(currentQuantity, sellSizing.quantity)
         transactionType == IF RLt(RZero, currentQuantity) THEN "sell" ELSE "short"
     IN  /\ positionCost' = Put(positionCost, symbol, sellCost)
         /\ positions' = Put(positions, symbol, newQuantity)
         /\ cash' = RAdd(cash, sellSizing.amount)
         /\ transactions' = Append(transactions,
              Tx(transactionType, currentBar.bar.close, sellSizing.quantity,
                 sellSizing.amount, newQuantity, sellCost))
         /\ dayTradingPositions' =
              IF DtpHas(dayTradingPositions, symbol) /\ RLe(newQuantity, RZero)
              THEN DtpDel(dayTradingPositions, symbol)
              ELSE dayTradingPositions
  /\ EndAction
  /\ UNCHANGED result
  /\ FrameOrder

ShortUpdates ==
  /\ positionCost' = Put(positionCost, symbol,
                         RSub(Get(positionCost, symbol), amountData.dollars))
  /\ positions' = Put(positions, symbol,
                      RSub(Get(positions, symbol), amountData.shares))
  /\ cash' = RAdd(cash, amountData.dollars)

ExecShort ==
  /\ pc = "action"
  /\ Triggered
  /\ action.type = "short"
  /\ action.amount.present
  /\ ShortUpdates
  /\ transactions' = Append(transactions,
       Tx("short", currentBar.bar.close, amountData.shares, amountData.dollars,
          RSub(Get(positions, symbol), amountData.shares),
          RSub(Get(positionCost, symbol), amountData.dollars)))
  /\ EndAction
  /\ UNCHANGED <<dayTradingPositions, result>>
  /\ FrameOrder

\* action.amount.type read on an action without amount: a TypeError leaves
\* runBacktest; the buy and short branches have updated the portfolio by then,
\* the sell branch reads it first
ThrowMissingAmount ==
  /\ pc = "action"
  /\ Triggered
  /\ ~action.amount.present
  /\ \/ /\ action.type = "buy"
        /\ buyAllowed
        /\ BuyUpdates
     \/ /\ action.type = "sell"
        /\ UNCHANGED <<cash, positions, positionCost>>
     \/ /\ action.type = "short"
        /\ ShortUpdates
  /\ result' = "threw"
  /\ pc' = "done"
  /\ UNCHANGED <<symIdx, actIdx, previousData, transactions, dayTradingPositions>>
  /\ FrameOrder

\* the TypeError of an indicator leaves runBacktest before any order
ThrowInCondition ==
  /\ pc = "action"
  /\ shouldProcess
  /\ conditionThrows
  /\ result' = "threw"
  /\ pc' = "done"
  /\ UNCHANGED <<cash, positions, positionCost, symIdx, actIdx, previousData,
                 transactions, dayTradingPositions>>
  /\ FrameOrder

\* the action is not due on this date, or its condition is not met
SkipAction ==
  /\ pc = "action"
  /\ ~Triggered \/ action.type \notin {"buy", "sell", "short"}
  /\ ~(shouldProcess /\ conditionThrows)
  /\ EndAction
  /\ UNCHANGED <<portfolio, dayTradingPositions, result>>
  /\ FrameOrder

(***************************************************************************)
(* runBacktest: end-of-day closeout of the day-trading entries             *)
(***************************************************************************)
EodRecord(d, e, quantity, close) ==
  [date |-> d, symbol |-> e.symbol, type |-> "sell", price |-> close,
   quantity |-> quantity, amount |-> RMul(quantity, close),
   amountType |-> "percentage", amountValue |-> R(100),
   positionAfter |-> RZero, costBasisAfter |-> RZero,
   conditionDetails |-> Cond("day_trading_eod_exit"),
   isDayTrading |-> TRUE, isEodExit |-> TRUE,
   entryPrice |-> e.entryPrice, exitPrice |-> close,
   profitLoss |-> RSub(RMul(quantity, close), RMul(e.quantity, e.entryPrice))]

EodExitNoop(st, e, d) == st

EodExitOverwriting(st, e, d) ==
  LET bar == FindBar(stockData[e.symbol], d)
      quantity == Get(st.positions, e.symbol)
  IN  IF e.entryDate = d /\ RLt(RZero, quantity) /\ bar.found
      THEN [cash |-> RAdd(st.cash, RMul(quantity, bar.bar.close)),
            positions |-> Put(st.positions, e.symbol, RZero),
            positionCost |-> Put(st.positionCost, e.symbol, RZero),
            transactions |-> [st.transactions EXCEPT ![Len(st.transactions)] =
                                EodRecord(d, e, quantity, bar.bar.close)],
            dtp |-> DtpDel(st.dtp, e.symbol)]
      ELSE st

\* the closeout of one tracked entry on the portfolio st
EodExit(st, e, d) ==
  LET bar == FindBar(stockData[e.symbol], d)
      quantity == Get(st.positions, e.symbol)
  IN  IF e.entryDate = d /\ RLt(RZero, quantity) /\ bar.found
      THEN [cash |-> RAdd(st.cash, RMul(quantity, bar.bar.close)),
            positions |-> Put(st.positions, e.symbol, RZero),
            positionCost |-> Put(st.positionCost, e.symbol, RZero),
            transactions |-> Append(st.transactions,
                                    EodRecord(d, e, quantity, bar.bar.close)),
            dtp |-> DtpDel(st.dtp, e.symbol)]
      ELSE st

RECURSIVE EodFold(_, _, _, _)
\* Object.keys(dayTradingPositions).forEach over the keys snapshot
EodFold(entries, i, st, d) ==
  IF i > Len(entries) THEN st
  ELSE EodFold(entries, i + 1, EodExit(st, entries[i], d), d)

EndOfDay ==
  /\ pc = "eod"
  /\ LET st == EodFold(dayTradingPositions, 1,
                      [cash |-> cash, positions |-> positions,
                       positionCost |-> positionCost,
                       transactions |-> transactions,
                       dtp |-> dayTradingPositions], date)
     IN  /\ cash' = st.cash
         /\ positions' = st.positions
         /\ positionCost' = st.positionCost
         /\ transactions' = st.transactions
         /\ dayTradingPositions' = st.dtp
  /\ IF dateIndex + 1 < Len(tradingDates)
     THEN pc' = "mark" /\ dateIndex' = dateIndex + 1
     ELSE pc' = "metrics" /\ UNCHANGED dateIndex
  /\ UNCHANGED <<outside, inputs, run, firstResult, tradingDates, symIdx, actIdx,
                 totalPortfolioValue, valueHistory, metrics, positionAvgCost,
                 previousData, historyData, insufficientCashLogged, result>>

(***************************************************************************)
(* runBacktest: metrics and reconciliation                                 *)
(***************************************************************************)
RECURSIVE DrawdownFromInitialCash(_, _, _, _)
DrawdownFromInitialCash(history, i, peak, maxDrawdown) ==
  IF i > Len(history) THEN maxDrawdown
  ELSE LET drawdown == RMul(RDiv(RSub(peak, history[i].value), peak), R(100))
       IN  IF RLt(maxDrawdown, drawdown)
           THEN DrawdownFromInitialCash(history, i + 1, peak, drawdown)
           ELSE DrawdownFromInitialCash(history, i + 1, peak, maxDrawdown)

RECURSIVE Drawdown(_, _, _, _)
\* the forEach over valueHistory from point i on, with the running peak and maximum
Drawdown(history, i, peak, maxDrawdown) ==
  IF i > Len(history) THEN maxDrawdown
  ELSE LET p == IF RLt(peak, history[i].value) THEN history[i].value ELSE peak
           drawdown == RMul(RDiv(RSub(p, history[i].value), p), R(100))
       IN  IF RLt(maxDrawdown, drawdown)
           THEN Drawdown(history, i + 1, p, drawdown)
           ELSE Drawdown(history, i + 1, p, maxDrawdown)

\* the price of the symbol's most recent transaction, 0 when it has none
lastPrice(txs, s) ==
  LET mine == SelectSeq(txs, LAMBDA tx : tx.symbol = s)
  IN  IF mine = <<>> THEN RZero ELSE mine[Len(mine)].price

calculatedFinalValue ==
  RAdd(cash, SumOver(DOMAIN positions, positions,
                     [s \in DOMAIN positions |-> lastPrice(transactions, s)]))

portfolioFinalValue == valueHistory[Len(valueHistory)].value

\* the simple daily returns between consecutive value points
returns(history) ==
  [i \in 1..(Len(history) - 1) |->
     RDiv(RSub(history[i + 1].value, history[i].value), history[i].value)]

\* metrics.sharpeRatio, up to the class of number it is: the square roots are
\* not rational, so the magnitude is left out.  With no return both averages
\* are 0 / 0, so stdDeviation is NaN, NaN === 0 is false and the ratio is
\* NaN / NaN; a return over a value of 0 is infinite or NaN and makes the
\* deviation NaN as well.  Otherwise stdDeviation is 0 exactly when every
\* return equals the mean, and the ratio is then the literal 0.
sharpeRatio(history) ==
  IF Len(history) < 2 THEN "NaN"
  ELSE IF \E i \in 1..(Len(history) - 1) : history[i].value = RZero THEN "NaN"
  ELSE IF \A i, j \in DOMAIN returns(history) : returns(history)[i] = returns(history)[j]
       THEN "0"
       ELSE "finite"

Finish ==
  /\ pc = "metrics"
  /\ metrics' = [metrics EXCEPT
       !.totalReturn = RMul(RDiv(RSub(portfolioFinalValue, R(initialCash)),
                                 R(initialCash)), R(100)),
       !.maxDrawdown = Drawdown(valueHistory, 1, R(initialCash), RZero),
       !.sharpeRatio = sharpeRatio(valueHistory),
       !.valuesConsistent =
          RLe(RAbs(RSub(portfolioFinalValue, calculatedFinalValue)), Rat(1, 100))]
  /\ positionAvgCost' =
       [s \in {x \in DOMAIN positions : positions[x] # RZero} |->
          RDiv(RAbs(Get(positionCost, s)), RAbs(positions[s]))]
  /\ result' = "ok"
  /\ pc' = "done"
  /\ UNCHANGED <<outside, inputs, run, firstResult, tradingDates, dateIndex, symIdx, actIdx,
                 totalPortfolioValue, portfolio, previousData, historyData,
                 dayTradingPositions, insufficientCashLogged>>

\* what a call hands back to its caller
Returned ==
  [result |-> result, cash |-> cash, positions |-> positions,
   positionCost |-> positionCost, positionAvgCost |-> positionAvgCost,
   transactions |-> transactions, valueHistory |-> valueHistory,
   metrics |-> metrics]

NotReturned == [result |-> "none"]

\* every local a call of runBacktest declares
Locals == <<pc, tradingDates, dateIndex, symIdx, actIdx, totalPortfolioValue, cash,
            positions, positionCost, transactions, valueHistory, metrics,
            positionAvgCost, previousData, historyData, dayTradingPositions,
            insufficientCashLogged, result>>

\* the engine's part of the state
engine == <<inputs, run, firstResult, Locals>>

StaleLocalsNext ==
  /\ pc' = "start"
  /\ tradingDates' = <<>>
  /\ dateIndex' = 0
  /\ symIdx' = 0
  /\ actIdx' = 0
  /\ totalPortfolioValue' = RZero
  /\ cash' = R(initialCash)
  /\ positions' = EmptyMap
  /\ positionCost' = EmptyMap
  /\ transactions' = <<>>
  /\ valueHistory' = <<>>
  /\ metrics' = NoMetrics
  /\ positionAvgCost' = EmptyMap
  /\ insufficientCashLogged' = 0
  /\ result' = "none"
  /\ UNCHANGED <<previousData, historyData, dayTradingPositions>>

FreshLocalsNext ==
  /\ pc' = "start"
  /\ tradingDates' = <<>>
  /\ dateIndex' = 0
  /\ symIdx' = 0
  /\ actIdx' = 0
  /\ totalPortfolioValue' = RZero
  /\ cash' = R(initialCash)
  /\ positions' = EmptyMap
  /\ positionCost' = EmptyMap
  /\ transactions' = <<>>
  /\ valueHistory' = <<>>
  /\ metrics' = NoMetrics
  /\ positionAvgCost' = EmptyMap
  /\ previousData' = [x \in {} |-> NullBar]
  /\ historyData' = [x \in {} |-> <<>>]
  /\ dayTradingPositions' = <<>>
  /\ insufficientCashLogged' = 0
  /\ result' = "none"

\* the caller keeps the first call's return value and calls runBacktest again
\* on the same arguments
CallAgain ==
  /\ pc = "done"
  /\ run = 1
  /\ firstResult' = Returned
  /\ run' = 2
  /\ FreshLocalsNext
  /\ UNCHANGED <<outside, inputs>>

(***************************************************************************)
(* Direct calls of the pure helpers                                        *)
(***************************************************************************)
NoCall ==
  [fn |-> "none", amountRule |-> NoAmount, portfolioValue |-> RZero,
   currentPrice |-> RZero, priceHistory |-> <<>>, days |-> 0, direction |-> "",
   condition |-> Cond("simple"), value |-> RZero]

\* threw: the call raised instead of returning
NoResult ==
  [returned |-> FALSE, threw |-> FALSE, dollars |-> RZero, shares |-> RZero, met |-> FALSE]

CallCalculateAmount ==
  /\ fnCall.fn = "calculateAmount"
  /\ ~fnResult.returned
  /\ LET r == calculateAmount(fnCall.amountRule, fnCall.portfolioValue,
                              fnCall.currentPrice)
     IN  fnResult' = [NoResult EXCEPT !.returned = TRUE, !.dollars = r.dollars,
                                      !.shares = r.shares]
  /\ UNCHANGED <<fnCall, route, engine>>

CallCheckConsecutiveCondition ==
  /\ fnCall.fn = "checkConsecutiveCondition"
  /\ ~fnResult.returned
  /\ fnResult' = [NoResult EXCEPT !.returned = TRUE,
                    !.met = checkConsecutiveCondition(fnCall.priceHistory, fnCall.days,
                                                      fnCall.direction)]
  /\ UNCHANGED <<fnCall, route, engine>>

CallCheckCondition ==
  /\ fnCall.fn = "checkCondition"
  /\ ~fnResult.returned
  /\ ~fnResult.threw
  /\ fnResult' = IF checkConditionThrows(fnCall.condition, fnCall.priceHistory)
                 THEN [NoResult EXCEPT !.threw = TRUE]
                 ELSE [NoResult EXCEPT !.returned = TRUE,
                         !.met = checkCondition(fnCall.condition, fnCall.priceHistory,
                                                fnCall.value)]
  /\ UNCHANGED <<fnCall, route, engine>>

(***************************************************************************)
(* The /backtest route: fetching the bars, then calling runBacktest         *)
(***************************************************************************)
batchSize == 3

\* the day number of endDate, the 31st of December of the range's last year
endDate == 365

\* one bar as the handler stores it
FetchedBar(d, o, h, l, c, v) ==
  [date |-> d, open |-> o, high |-> h, low |-> l, close |-> c, volume |-> v]

\* the synthetic series of the catch block: 30 days from 30 days before endDate
placeholderData ==
  [k \in 1..30 |-> FetchedBar((endDate - 30) + (k - 1), 100, 100, 100, 100, 0)]

\* what the provider answers when it has data: two valid bars, latest first
providerData == <<FetchedBar(2, 11, 12, 10, 11, 500), FetchedBar(1, 10, 11, 9, 10, 400)>>

\* processedData.sort by date, then the map that copies the valid fields
processedData(data) ==
  LET ds == SortedSeq({data[k].date : k \in DOMAIN data})
  IN  [k \in 1..Len(ds) |-> data[CHOOSE j \in DOMAIN data : data[j].date = ds[k]]]

allSymbols == DOMAIN stockSymbols

\* stockSymbols.slice(i, i + batchSize), as positions in stockSymbols
batch == {k \in DOMAIN stockSymbols : batchStart < k /\ k <= batchStart + batchSize}

FrameHandler == UNCHANGED <<stockSymbols, pure, engine>>

\* every callback of a Promise.all runs up to its first await, the delay timer
StartBatch ==
  /\ handlerPc = "loop"
  /\ batchStart < Len(stockSymbols)
  /\ fetchPhase' = [k \in DOMAIN fetchPhase |->
                      IF k \in batch THEN "delay" ELSE fetchPhase[k]]
  /\ handlerPc' = "awaitBatch"
  /\ UNCHANGED <<batchStart, handlerStockData, runBacktestArg>>
  /\ FrameHandler

\* the rate-limit delay of one callback is over: yahooFinance.historical is called
DelayElapsed ==
  \E k \in DOMAIN stockSymbols :
    /\ fetchPhase[k] = "delay"
    /\ fetchPhase' = [fetchPhase EXCEPT ![k] = "request"]
    /\ UNCHANGED <<batchStart, handlerPc, handlerStockData, runBacktestArg>>
    /\ FrameHandler

\* the ways a fetch callback returns: after storing the provider's bars, after
\* the warning that no data was received, or through the inner catch block
Settled == {"stored", "empty", "caught"}

\* the request of symbol k is over: the callback returns by the given way and
\* stores series (or nothing)
Settle(k, way, stores, series) ==
  /\ fetchPhase[k] = "request"
  /\ fetchPhase' = [fetchPhase EXCEPT ![k] = way]
  /\ handlerStockData' = IF stores THEN Put(handlerStockData, stockSymbols[k], series)
                         ELSE handlerStockData
  /\ UNCHANGED <<batchStart, handlerPc, runBacktestArg>>
  /\ FrameHandler

FetchReturnsData ==
  \E k \in DOMAIN stockSymbols : Settle(k, "stored", TRUE, processedData(providerData))

FetchReturnsNothing == \E k \in DOMAIN stockSymbols : Settle(k, "empty", FALSE, <<>>)

FetchFailsWithoutSeries == \E k \in DOMAIN stockSymbols : Settle(k, "caught", FALSE, <<>>)

\* the request or the processing throws: the inner catch stores the placeholder
FetchFails == \E k \in DOMAIN stockSymbols : Settle(k, "caught", TRUE, placeholderData)

\* Promise.all resolves once every callback of the batch has returned (none can
\* reject: the outer try/catch swallows everything); a 500 ms pause follows
\* unless this was the last batch
BatchSettled ==
  /\ handlerPc = "awaitBatch"
  /\ \A k \in batch : fetchPhase[k] \in Settled
  /\ IF batchStart + batchSize < Len(stockSymbols)
     THEN handlerPc' = "pause" /\ UNCHANGED batchStart
     ELSE handlerPc' = "loop" /\ batchStart' = batchStart + batchSize
  /\ UNCHANGED <<fetchPhase, handlerStockData, runBacktestArg>>
  /\ FrameHandler

PauseElapsed ==
  /\ handlerPc = "pause"
  /\ handlerPc' = "loop"
  /\ batchStart' = batchStart + batchSize
  /\ UNCHANGED <<fetchPhase, handlerStockData, runBacktestArg>>
  /\ FrameHandler

\* the loop condition i < stockSymbols.length fails
ExitLoop ==
  /\ handlerPc = "loop"
  /\ batchStart >= Len(stockSymbols)
  /\ handlerPc' = "fetched"
  /\ UNCHANGED <<batchStart, fetchPhase, handlerStockData, runBacktestArg>>
  /\ FrameHandler

\* no symbol got a series: the handler answers 500
RespondNoData ==
  /\ handlerPc = "fetched"
  /\ DOMAIN handlerStockData = {}
  /\ handlerPc' = "responded500"
  /\ UNCHANGED <<batchStart, fetchPhase, handlerStockData, runBacktestArg>>
  /\ FrameHandler

NotCalled == [called |-> FALSE, stockData |-> [x \in {} |-> <<>>]]

\* runBacktest(normalizedStrategy, stockData)
CallRunBacktest ==
  /\ handlerPc = "fetched"
  /\ DOMAIN handlerStockData # {}
  /\ runBacktestArg' = [called |-> TRUE, stockData |-> handlerStockData]
  /\ handlerPc' = "backtest"
  /\ UNCHANGED <<batchStart, fetchPhase, handlerStockData>>
  /\ FrameHandler

\* the handler before the fetch loop, for n symbols
HandlerAtLoop(n) ==
  /\ stockSymbols = [k \in 1..n |-> k]
  /\ batchStart = 0
  /\ handlerPc = "loop"
  /\ fetchPhase = [k \in 1..n |-> "notStarted"]
  /\ handlerStockData = [x \in {} |-> <<>>]
  /\ runBacktestArg = NotCalled

\* no request is being handled and no helper is being called directly
OutsideIdle ==
  /\ fnCall = NoCall
  /\ fnResult = NoResult
  /\ HandlerAtLoop(0)

\* runBacktest is not running
EngineIdle ==
  /\ strategy = [actions |-> <<>>]
  /\ stockData = [s \in {} |-> <<>>]
  /\ run = 1
  /\ firstResult = NotReturned
  /\ FreshLocals

(***************************************************************************)
(* The arguments the engine is run on                                      *)
(***************************************************************************)
NumDates == 3

Dates == 1..NumDates

\* the bars of a symbol that trades on the dates S, with the given open and close
\* per date
SeriesOf(S, open, close) ==
  LET ds == SortedSeq(S)
  IN  [i \in 1..Len(ds) |-> Bar(ds[i], open[ds[i]], close[ds[i]])]

Always == Simple("price", "greater_than", 0)
Drop5 == Simple("percent_change", "less_than", -5)

\* several symbols trading on different dates; A falls on the second date and
\* stays or recovers, B is flat
UnivPaths ==
  {[d \in Dates |-> IF d = 1 THEN 100 ELSE 80],
   [d \in Dates |-> IF d = 2 THEN 80 ELSE 100],
   [d \in Dates |-> IF d = 1 THEN 100 ELSE 50]}

UnivData ==
  {[s \in {} |-> <<>>]}
  \cup {[s \in {"A"} |-> SeriesOf(SA, p, p)] : SA \in SUBSET Dates, p \in UnivPaths}
  \cup {[s \in {"A", "B"} |->
           IF s = "A" THEN SeriesOf(SA[1], SA[2], SA[2])
           ELSE SeriesOf(SB, [d \in Dates |-> 100], [d \in Dates |-> 100])] :
        SA \in (SUBSET Dates) \X UnivPaths, SB \in SUBSET Dates}

UnivStrategies ==
  {<<>>,
   <<Action("buy", "daily", Drop5, AmountRule("fixed_amount", 100))>>,
   <<Action("buy", "daily", Always, AmountRule("fixed_amount", 6000))>>,
   <<Action("buy", "daily", Always, AmountRule("fixed_amount", 3000))>>,
   <<Action("buy", "daily", Drop5, AmountRule("fixed_amount", 100)),
     Action("sell", "daily", Always, AmountRule("shares", 10))>>,
   <<Action("sell", "daily", Always, AmountRule("shares", 10)),
     Action("buy", "daily", Always, AmountRule("percentage", 50))>>,
   <<Action("buy", "daily", Drop5, AmountRule("shares", 10)),
     Action("sell", "daily", Always, AmountRule("percentage", 1))>>,
   <<Action("short", "daily", Drop5, AmountRule("fixed", 100))>>,
   <<Action("buy", "daily", Drop5, TypeOnly("bogus"))>>,
   <<Action("buy", "daily", Drop5, NoAmount)>>,
   <<Action("sell", "daily", Drop5, NoAmount)>>,
   <<Action("short", "daily", Drop5, NoAmount)>>}

UnivInputs ==
  {[strategy |-> [actions |-> a], stockData |-> sd] : a \in UnivStrategies, sd \in UnivData}

\* one symbol trading every date, one daily percent_change action
Operators == {"greater_than", "greater_than_equal", "less_than", "less_than_equal", "equal"}

PctData ==
  {[s \in {"A"} |-> SeriesOf(Dates, p, p)] : p \in [Dates -> {94, 95, 100}]}

PctStrategies ==
  {<<Action("buy", "daily", Drop5, AmountRule("fixed_amount", 100))>>}
  \cup {<<Action("sell", "daily", Simple("percent_change", op, -5),
                 AmountRule("fixed_amount", 100))>> : op \in Operators}

PctInputs ==
  {[strategy |-> [actions |-> a], stockData |-> sd] : a \in PctStrategies, sd \in PctData}

\* one symbol trading every date, one daily sell on a consecutive condition
ConsecDates == 1..(NumDates + 1)

ConsecData ==
  {[s \in {"A"} |-> SeriesOf(ConsecDates, p, p)] : p \in [ConsecDates -> {10, 11, 12, 13}]}

ConsecStrategies ==
  {<<Action("sell", "daily", Consecutive(3, dir), AmountRule("fixed_amount", 100))>> :
     dir \in {"up", "down", "unchanged"}}

ConsecInputs ==
  {[strategy |-> [actions |-> a], stockData |-> sd] :
     a \in ConsecStrategies, sd \in ConsecData}

\* one symbol trading every date, one daily buy on a day-trading gap pattern
GapData ==
  {[s \in {"A"} |-> SeriesOf(Dates, o, c)] :
     o \in [Dates -> {193, 200, 210}], c \in [Dates -> {190, 200}]}

GapStrategies ==
  {<<Action("buy", "daily", Pattern(p, th), AmountRule("fixed_amount", 200))>> :
     p \in DayTradePatterns, th \in {0, 3}}

GapInputs ==
  {[strategy |-> [actions |-> a], stockData |-> sd] : a \in GapStrategies, sd \in GapData}

\* one symbol that gaps down on the second date only, with a day-trading buy
\* next to an order that makes the position long or short before it, or sells
\* after it; or with a sell or a short on the same pattern
GapOnceData ==
  {[s \in {"A"} |-> SeriesOf(Dates, [d \in Dates |-> IF d = 2 THEN 193 ELSE 200], c)] :
     c \in [Dates -> {190, 200}]}

GapOnceStrategies ==
  {<<Action(t, "daily", Always, AmountRule("fixed_amount", 380)),
     Action("buy", "daily", Pattern("day_trade_gap_down", 3),
            AmountRule("fixed_amount", 200))>> : t \in {"buy", "short"}}
  \cup {<<Action("buy", "daily", Pattern("day_trade_gap_down", 3),
                 AmountRule("fixed_amount", 200)),
          Action("sell", "daily", Always, AmountRule("fixed_amount", 1000))>>}
  \cup {<<Action(t, "daily", Pattern("day_trade_gap_down", 3),
                 AmountRule("fixed_amount", 200))>> : t \in {"sell", "short"}}

GapOnceInputs ==
  {[strategy |-> [actions |-> a], stockData |-> sd] :
     a \in GapOnceStrategies, sd \in GapOnceData}

Inputs == UnivInputs \cup PctInputs \cup ConsecInputs \cup GapInputs \cup GapOnceInputs

\* runs over two months: flat closes at 100, so that only the calendar matters.
\* A alone trades every day from the 1st, the 5th or the 20th of January on; or
\* B trades every day and A misses the 3rd and the 12th of January, or trades
\* on the odd days only
LongDates == 61

LongCalendar(first) == first..LongDates

Flat(S) == SeriesOf(S, [d \in S |-> 100], [d \in S |-> 100])

LongData ==
  {[s \in {"A"} |-> Flat(LongCalendar(first))] : first \in {1, 5, 20}}
  \cup {[s \in {"A", "B"} |-> IF s = "A" THEN Flat(SA) ELSE Flat(LongCalendar(1))] :
          SA \in {LongCalendar(1) \ {3, 12}, {d \in LongCalendar(1) : d % 2 = 1}}}

WeekUp == Simple("percent_change", "greater_than_equal", 0)

LongStrategies ==
  {<<>>,
   <<Action("buy", "daily", Always, AmountRule("fixed_amount", 100))>>,
   <<Action("buy", "weekly", Always, AmountRule("fixed_amount", 6000))>>,
   <<Action("buy", "monthly", Always, AmountRule("fixed_amount", 100))>>,
   <<Action("sell", "weekly", WeekUp, AmountRule("fixed_amount", 100)),
     Action("short", "monthly", WeekUp, AmountRule("fixed_amount", 100))>>,
   <<Action("short", "weekly", Always, NoAmount)>>}

\* technical conditions on indicators whose minimum history is above the cap
\* of the buffer; on flat closes the MACD histogram and the mean reversion are
\* 0 wherever they have a value
BeyondBufferStrategies ==
  {<<Action("buy", "daily", Technical(ind, NoParams, "greater_than_equal", 0),
            AmountRule("fixed_amount", 100))>> :
     ind \in {"macd", "gap", "double_bottom", "mean_reversion", "day_trading_signal"}}
  \cup {<<Action("short", "daily", Technical("mean_reversion", NoParams, "equal", 0),
                 AmountRule("fixed_amount", 100))>>}

LongInputs ==
  {[strategy |-> [actions |-> a], stockData |-> sd] :
     a \in LongStrategies \cup BeyondBufferStrategies, sd \in LongData}

(***************************************************************************)
(* Specifications                                                          *)
(***************************************************************************)
Init ==
  /\ \E inp \in Inputs : strategy = inp.strategy /\ stockData = inp.stockData
  /\ run = 1
  /\ firstResult = NotReturned
  /\ FreshLocals
  /\ OutsideIdle

Next ==
  \/ Start
  \/ MarkToMarket
  \/ SymbolStep
  \/ ExecBuy
  \/ DropBuy
  \/ ExecSell
  \/ ExecShort
  \/ ThrowMissingAmount
  \/ SkipAction
  \/ EndOfDay
  \/ Finish

\* one call of runBacktest
Spec == Init /\ [][Next]_vars

\* two calls of runBacktest on the same arguments
NextTwice ==
  \/ Next
  \/ CallAgain

SpecTwice == Init /\ [][NextTwice]_vars

\* one call of runBacktest on a run of two months
InitLong ==
  /\ \E inp \in LongInputs : strategy = inp.strategy /\ stockData = inp.stockData
  /\ run = 1
  /\ firstResult = NotReturned
  /\ FreshLocals
  /\ OutsideIdle

SpecLong == InitLong /\ [][Next]_vars

\* the helpers called directly
MaxHistory == 3

Histories ==
  UNION {[1..n -> {Bar(0, c, c) : c \in {10, 11, 12}}] : n \in 0..MaxHistory}

AmountRules ==
  {NoAmount}
  \cup {TypeOnly(t) : t \in {"none", "fixed_amount", "percentage", "shares", "bogus"}}
  \cup {AmountRule(t, v) : t \in {"none", "fixed_amount", "fixed", "percentage", "shares", "bogus"},
                           v \in {-5, 0, 10}}

PureCalls ==
  {[NoCall EXCEPT !.fn = "checkConsecutiveCondition", !.priceHistory = h,
                  !.days = n, !.direction = dir] :
     h \in Histories, n \in 1..MaxHistory, dir \in {"up", "down", "unchanged"}}
  \cup {[NoCall EXCEPT !.fn = "calculateAmount", !.amountRule = a,
                       !.portfolioValue = R(pv), !.currentPrice = R(pr)] :
          a \in AmountRules, pv \in {-100, 0, 10000}, pr \in {-1, 0, 4}}

\* histories for the indicators: bars that open at their close, numbered from 1
Hist(closes) == [k \in DOMAIN closes |-> Bar(k, closes[k], closes[k])]

\* bars given as <<open, close, volume>>
HistOCV(bars) ==
  [k \in DOMAIN bars |->
     FullBar(k, bars[k][1], Max(bars[k][1], bars[k][2]),
             IF bars[k][1] < bars[k][2] THEN bars[k][1] ELSE bars[k][2],
             bars[k][2], bars[k][3])]

FlatCloses(n) == [k \in 1..n |-> 10]

\* two lows of 9 ten bars apart around a high of 10, then a close of 12
DoubleBottomCloses == <<10, 9, 10, 10, 10, 10, 10, 10, 10, 10, 10, 9, 12>>

ShortHistories ==
  {Hist(<<>>), Hist(<<10>>), Hist(<<10, 11, 9>>), Hist(<<10, 9, 11>>),
   Hist(<<10, 10, 10, 10, 10>>), Hist(<<10, 12, 9, 12, 9>>), Hist(<<10, 9, 12, 9, 12>>),
   HistOCV(<<<<100, 100, 0>>, <<101, 101, 500>>>>),
   HistOCV(<<<<100, 100, 1000>>, <<95, 96, 1500>>>>),
   HistOCV(<<<<100, 100, 1000>>, <<104, 99, 1000>>>>),
   HistOCV(<<<<100, 100, 1000>>, <<99, 99, 1000>>>>)}

LongHistories ==
  {Hist(FlatCloses(7)), Hist(<<10, 10, 10, 10, 10, 8, 12>>),
   Hist(<<10, 10, 10, 10, 10, 12, 8>>), Hist(<<8, 9, 10, 11, 12, 11, 12>>),
   Hist(DoubleBottomCloses)}

AnyOperators == Operators \cup {"bogus"}

SmallPeriods ==
  [NoParams EXCEPT !.period = 2, !.fastPeriod = 1, !.slowPeriod = 2, !.signalPeriod = 2,
                   !.lookback = 1]

\* every valueType and direction the evaluator distinguishes, on the default
\* periods and on small ones
ParamsOf(indicator) ==
  LET bases == {NoParams, SmallPeriods}
      With(valueTypes, directions) ==
        {[b EXCEPT !.valueType = vt, !.direction = dir] :
           b \in bases, vt \in valueTypes, dir \in directions}
  IN  CASE indicator = "macd" ->
             With({"", "line", "signal", "histogram", "crossover", "bogus"},
                  {"", "bullish", "bearish"})
        [] indicator = "ma_relative" -> With({"", "crossover"}, {"", "bullish", "bearish"})
        [] indicator = "bbands" ->
             With({"", "upper", "lower", "width", "width_change", "percent_b", "bogus"}, {""})
        [] indicator = "obv" ->
             {[b EXCEPT !.slope = sl] :
                b \in With({"", "value", "slope", "divergence", "bogus"},
                           {"", "positive", "negative"}),
                sl \in BOOLEAN}
        [] indicator = "atr" ->
             {[b EXCEPT !.percent = pct] : b \in With({"", "change", "bogus"}, {""}),
                                          pct \in BOOLEAN}
        [] indicator = "gap" -> With({""}, {"", "up", "down"})
        [] indicator = "double_bottom" -> {NoParams, [NoParams EXCEPT !.lookback = 12]}
        [] OTHER -> bases

Indicators ==
  {"day_trading_signal", "rsi", "macd", "ma_relative", "bbands", "volume_change", "obv",
   "atr", "mfi", "gap", "double_bottom", "mean_reversion", "bogus"}

TechnicalConditions ==
  UNION {{Technical(ind, prm, op, v) : prm \in ParamsOf(ind), op \in AnyOperators, v \in {0, 1}} :
           ind \in Indicators}

PatternNames ==
  {"double_bottom", "gap_down", "gap_up", "day_trade_gap_down", "day_trade_gap_up",
   "day_trade_gap_any", "obv_positive_divergence", "obv_negative_divergence",
   "head_and_shoulders", "", "constructor"}

PatternConditions ==
  {[Pattern(p, th) EXCEPT !.period = n, !.params = prm, !.operator = op] :
     p \in PatternNames, th \in {0, 1, 5}, n \in {0, 2},
     prm \in {NoParams, [NoParams EXCEPT !.lookback = 12]}, op \in {"", "less_than"}}

\* the MACD is kept to short or flat histories, where its fractions stay small
HistoriesFor(condition) ==
  IF condition.type = "technical" /\ condition.indicator = "macd"
  THEN ShortHistories \cup {Hist(FlatCloses(7))}
  ELSE ShortHistories \cup LongHistories

ConditionCall(c, h) ==
  [NoCall EXCEPT !.fn = "checkCondition", !.condition = c, !.priceHistory = h]

InitPure ==
  /\ \/ fnCall \in PureCalls
     \/ \E c \in PatternConditions \cup TechnicalConditions :
          \E h \in HistoriesFor(c) : fnCall = ConditionCall(c, h)
  /\ fnResult = NoResult
  /\ HandlerAtLoop(0)
  /\ EngineIdle

NextPure ==
  \/ CallCalculateAmount
  \/ CallCheckConsecutiveCondition
  \/ CallCheckCondition

SpecPure == InitPure /\ [][NextPure]_vars

\* runs of two weeks with one technical action: A trades every day, on flat
\* closes or on closes that fall and recover around 10
TechDates == 12

TechCalendar == 1..TechDates

FlatPath == [d \in TechCalendar |-> 10]

TechPaths ==
  {FlatPath,
   [d \in TechCalendar |-> IF d % 6 = 0 THEN 8 ELSE IF d % 6 = 1 /\ d > 1 THEN 12 ELSE 10]}

TechData == {[s \in {"A"} |-> SeriesOf(TechCalendar, p, p)] : p \in TechPaths}

NotNegative(indicator, params) == Technical(indicator, params, "greater_than_equal", 0)

TechStrategies ==
  {<<Action("buy", "daily", NotNegative(ind, SmallPeriods), AmountRule("fixed_amount", 100))>> :
     ind \in {"rsi", "ma_relative", "bbands", "obv", "atr", "mfi", "volume_change", "gap"}}
  \cup {<<Action("buy", "daily", NotNegative("rsi", NoParams), AmountRule("fixed_amount", 100))>>,
         <<Action("buy", "daily", NotNegative("volume_change", NoParams),
                  AmountRule("fixed_amount", 6000))>>,
         <<Action("sell", "daily", NotNegative("obv", NoParams), AmountRule("shares", 10))>>,
         <<Action("short", "daily", NotNegative("atr", SmallPeriods),
                  AmountRule("fixed_amount", 100))>>,
         <<Action("buy", "daily", NotNegative("mfi", SmallPeriods), NoAmount)>>,
         <<Action("buy", "daily",
                  Technical("ma_relative",
                            [SmallPeriods EXCEPT !.valueType = "crossover",
                                                 !.direction = "bullish"], "equal", 1),
                  AmountRule("fixed_amount", 100))>>}

\* the MACD on flat closes only, where its fractions stay small
MacdStrategies ==
  {<<Action("buy", "daily", NotNegative("macd", SmallPeriods), AmountRule("fixed_amount", 100))>>}

TechInputs ==
  {[strategy |-> [actions |-> a], stockData |-> sd] : a \in TechStrategies, sd \in TechData}
  \cup {[strategy |-> [actions |-> a],
          stockData |-> [s \in {"A"} |-> SeriesOf(TechCalendar, FlatPath, FlatPath)]] :
           a \in MacdStrategies}

InitTech ==
  /\ \E inp \in TechInputs : strategy = inp.strategy /\ stockData = inp.stockData
  /\ run = 1
  /\ firstResult = NotReturned
  /\ FreshLocals
  /\ OutsideIdle

NextTech ==
  \/ Next
  \/ ThrowInCondition

SpecTech == InitTech /\ [][NextTech]_vars

\* one request to /backtest, from the fetch loop to the call of runBacktest
MaxSymbols == 7

InitFetch ==
  /\ \E n \in 1..MaxSymbols : HandlerAtLoop(n)
  /\ fnCall = NoCall
  /\ fnResult = NoResult
  /\ EngineIdle

NextFetch ==
  \/ StartBatch
  \/ DelayElapsed
  \/ FetchReturnsData
  \/ FetchReturnsNothing
  \/ FetchFails
  \/ BatchSettled
  \/ PauseElapsed
  \/ ExitLoop
  \/ RespondNoData
  \/ CallRunBacktest

SpecFetch == InitFetch /\ [][NextFetch]_vars

(***************************************************************************)
(* Properties                                                              *)
(***************************************************************************)
\* the distinct dates of the bars of the stockData argument
DistinctDates ==
  {d \in 1..(NumDates + 1) :
     \E s \in DOMAIN stockData : \E i \in DOMAIN stockData[s] : stockData[s][i].date = d}

\* how many of the distinct dates are not later than the date being processed
DatesBegun ==
  IF valueHistory = <<>> THEN 0
  ELSE Cardinality({d \in DistinctDates : d <= valueHistory[Len(valueHistory)].date})

\* C1: valueHistory holds one ValuePoint per distinct trading date, in
\* chronological order: at every moment its dates are the earliest distinct bar
\* dates in strictly increasing order, whatever symbols trade on them, and when
\* the run completes there is one for every distinct date.
C1_OneValuePointPerDate ==
  /\ \A i \in DOMAIN valueHistory : valueHistory[i].date \in DistinctDates
  /\ \A i, j \in DOMAIN valueHistory :
       i < j => valueHistory[i].date < valueHistory[j].date
  /\ Len(valueHistory) = DatesBegun
  /\ pc \in {"symbol", "action", "eod"} => Len(valueHistory) = dateIndex + 1
  /\ result = "ok" => Len(valueHistory) = Cardinality(DistinctDates)

C1_Witness ==
  /\ result = "ok"
  /\ DOMAIN stockData = {"A", "B"}
  /\ Len(valueHistory) = 3
  /\ Len(stockData["A"]) = 2
  /\ Len(stockData["B"]) = 2
  /\ Len(transactions) >= 2

Last(q) == q[Len(q)]

\* a step that appends one buy or cover_short record to the ledger
BuyExecuted ==
  /\ Len(transactions') = Len(transactions) + 1
  /\ Last(transactions').type \in {"buy", "cover_short"}

\* C2: every executed buy (record type buy or cover_short) takes exactly the
\* recorded dollars out of the cash and leaves the cash non-negative.
C2_BuyReducesCash ==
  [][BuyExecuted =>
       /\ cash' = RSub(cash, Last(transactions').amount)
       /\ RLe(RZero, cash')
       /\ RLt(RZero, Last(transactions').amount)]_vars

C2_Witness ==
  /\ transactions # <<>>
  /\ Last(transactions).type = "buy"
  /\ Last(transactions).amountType = "percentage"
  /\ \E i \in DOMAIN transactions :
       transactions[i].type = "cover_short" /\ transactions[i].amountType = "percentage"

\* the action being processed is a buy whose condition is met and whose resolved
\* dollars exceed the cash
BuyUnaffordable ==
  /\ pc = "action"
  /\ Triggered
  /\ action.type = "buy"
  /\ RLt(cash, amountData.dollars)

\* C3: a triggered buy the cash does not cover changes nothing (cash, positions,
\* cost basis, ledger, day-trading tracker), and nothing is kept of it: every
\* record an action step appends is for the date, symbol and action being
\* processed at that step, whose condition is met then.
C3_UnaffordableBuyDropped ==
  [][/\ BuyUnaffordable =>
          UNCHANGED <<cash, positions, positionCost, transactions, dayTradingPositions>>
     /\ (pc = "action" /\ transactions' # transactions) =>
          /\ Triggered
          /\ Len(transactions') = Len(transactions) + 1
          /\ SubSeq(transactions', 1, Len(transactions)) = transactions
          /\ Last(transactions').date = date
          /\ Last(transactions').symbol = symbol
          /\ Last(transactions').conditionDetails = action.condition
          /\ Last(transactions').amountValue = action.amount.value]_vars

C3_Witness ==
  /\ result = "ok"
  /\ insufficientCashLogged >= 1
  /\ Len(transactions) = 1
  /\ cash = R(4000)
  /\ Len(valueHistory) = 3

\* C4: in every completed run the final ValuePoint's value is within 0.01 of
\* cash plus, over the symbols, final quantity times the price of the symbol's
\* most recent transaction (metrics.valuesConsistent is true).
C4_Reconciled ==
  result = "ok" =>
    /\ metrics.valuesConsistent
    /\ RLe(RAbs(RSub(Last(valueHistory).value,
                     RAdd(cash, SumOver(DOMAIN positions, positions,
                                        [s \in DOMAIN positions |->
                                           lastPrice(transactions, s)])))),
           Rat(1, 100))

\* the closes and opens of the single symbol of a one-symbol run, by date
CloseOn(d) == FindBar(stockData["A"], d).bar.close
OpenOn(d) == FindBar(stockData["A"], d).bar.open

\* whether a trading date precedes d, and the latest such date
HasPrev(d) == \E e \in DistinctDates : e < d
PrevDate(d) == CHOOSE e \in DistinctDates : e < d /\ \A f \in DistinctDates : f < d => f <= e

\* the dates whose processing is complete
DatesDone ==
  {d \in DistinctDates :
     \/ pc \in {"metrics", "done"} /\ result # "threw"
     \/ pc \in {"mark", "symbol", "action", "eod"} /\ d < tradingDates[dateIndex + 1]}

\* the ledger positions of the records of date d
RecordsOn(d) == {k \in DOMAIN transactions : transactions[k].date = d}

\* the run is Scenario C's: one symbol, the single daily action "buy $200 on
\* day_trade_gap_down" with threshold 3 (given or defaulted)
ScenarioC ==
  /\ DOMAIN stockData = {"A"}
  /\ strategy.actions \in
       {<<Action("buy", "daily", Pattern("day_trade_gap_down", th),
                 AmountRule("fixed_amount", 200))>> : th \in {0, 3}}

\* the open of date d is 3.5% below the close of the date before
GapDown35(d) ==
  /\ HasPrev(d)
  /\ RMul(OpenOn(d), R(1000)) = RMul(CloseOn(PrevDate(d)), R(965))

\* C5: in Scenario C a date whose open is 3.5% below the prior close gets
\* exactly two records, adjacent in the ledger: a buy priced at the date's open
\* for 200/open shares, then a sell flagged as EOD exit priced at the date's
\* close for the same shares, leaving the position at exactly 0.
C5_DayTradeRoundTrip ==
  ScenarioC =>
    \A d \in DatesDone :
      GapDown35(d) =>
        \E k \in DOMAIN transactions :
          /\ RecordsOn(d) = {k, k + 1}
          /\ k + 1 \in DOMAIN transactions
          /\ transactions[k].type = "buy"
          /\ transactions[k].price = OpenOn(d)
          /\ transactions[k].quantity = RDiv(R(200), OpenOn(d))
          /\ transactions[k].amount = R(200)
          /\ transactions[k].isDayTrading
          /\ transactions[k + 1].type = "sell"
          /\ transactions[k + 1].isEodExit
          /\ transactions[k + 1].price = CloseOn(d)
          /\ transactions[k + 1].quantity = transactions[k].quantity
          /\ transactions[k + 1].positionAfter = RZero
          /\ (pc \in {"mark", "metrics", "done"} => Get(positions, "A") = RZero)

C5_Witness ==
  /\ ScenarioC
  /\ result = "ok"
  /\ GapDown35(2)
  /\ CloseOn(2) = R(190)
  /\ Len(transactions) = 2
  /\ transactions[1].price = R(193)
  /\ transactions[2].price = R(190)
  /\ transactions[2].isEodExit
  /\ positions["A"] = RZero
  /\ cash = RSub(R(10000), Rat(600, 193))

\* the run is on one symbol with the single daily action "sell $100 when
\* Consecutive(days = 3, direction)"
ConsecutiveRun(dir) ==
  /\ DOMAIN stockData = {"A"}
  /\ strategy.actions =
       <<Action("sell", "daily", Consecutive(3, dir), AmountRule("fixed_amount", 100))>>

\* the run is Scenario B's and closes starts 10, 11, 12, 13
ScenarioB ==
  /\ ConsecutiveRun("up")
  /\ Len(stockData["A"]) >= 4
  /\ \A i \in 1..4 : stockData["A"][i].close = R(9 + i) /\ stockData["A"][i].date = i

\* the records of the first four dates
RecordsUpTo4 == {k \in DOMAIN transactions : transactions[k].date <= 4}

ThreeBars(d, dir) ==
  /\ HasPrev(d)
  /\ HasPrev(PrevDate(d))
  /\ LET b == CloseOn(PrevDate(d))
         a == CloseOn(PrevDate(PrevDate(d)))
     IN  CASE dir = "up" -> RLt(a, b) /\ RLt(b, CloseOn(d))
           [] dir = "down" -> RLt(b, a) /\ RLt(CloseOn(d), b)
           [] OTHER -> a = b /\ b = CloseOn(d)

PercentRun(type, op) ==
  /\ DOMAIN stockData = {"A"}
  /\ strategy.actions =
       <<Action(type, "daily", Simple("percent_change", op, -5),
                AmountRule("fixed_amount", 100))>>

\* the change from the close before to the close of date d satisfies "op -5":
\* 100 * (c - p) against -5 * p, for positive p
ChangeSatisfies(d, op) ==
  /\ HasPrev(d)
  /\ LET c == CloseOn(d).n
         p == CloseOn(PrevDate(d)).n
     IN  CASE op = "greater_than" -> 100 * (c - p) > -5 * p
           [] op = "greater_than_equal" -> 100 * (c - p) >= -5 * p
           [] op = "less_than" -> 100 * (c - p) < -5 * p
           [] op = "less_than_equal" -> 100 * (c - p) =< -5 * p
           [] op = "equal" -> 100 * (c - p) = -5 * p

\* C7: a daily percent_change action records a transaction on exactly the dates
\* whose close-to-previous-close change satisfies the operator and threshold;
\* each buy is at the close for 100/close shares and takes $100 from the cash.
\* With closes 100, 94, 94 that is one buy on date index 1 at 94 for 100/94
\* shares, leaving 9900.
C7_PercentChangeFires ==
  \A op \in Operators : \A type \in {"buy", "sell"} :
    PercentRun(type, op) =>
      /\ \A d \in DatesDone :
           Cardinality(RecordsOn(d)) = IF ChangeSatisfies(d, op) THEN 1 ELSE 0
      /\ type = "buy" =>
           /\ \A k \in DOMAIN transactions :
                /\ transactions[k].type = "buy"
                /\ transactions[k].price = CloseOn(transactions[k].date)
                /\ transactions[k].quantity = RDiv(R(100), transactions[k].price)
           /\ pc \in {"mark", "metrics", "done"} =>
                cash = R(10000 - 100 * Len(transactions))

C7_Witness ==
  /\ PercentRun("buy", "less_than")
  /\ result = "ok"
  /\ CloseOn(1) = R(100)
  /\ CloseOn(2) = R(94)
  /\ CloseOn(3) = R(94)
  /\ Len(transactions) = 1
  /\ transactions[1].date = 2
  /\ transactions[1].price = R(94)
  /\ transactions[1].quantity = Rat(50, 47)
  /\ cash = R(9900)

\* the bar data holds no bar at all
NoBars == \A s \in DOMAIN stockData : stockData[s] = <<>>

\* C8: on bar data without any trading date runBacktest returns the error value
\* at once: it does not throw and records no ValuePoint and no transaction.
C8_NoTradingData ==
  NoBars =>
    /\ pc \in {"start", "done"}
    /\ result \in {"none", "error"}
    /\ pc = "done" => result = "error"
    /\ valueHistory = <<>>
    /\ transactions = <<>>

C8_Witness ==
  /\ result = "error"
  /\ pc = "done"
  /\ DOMAIN stockData = {"A", "B"}
  /\ strategy.actions # <<>>

\* C9: an action without a resolvable amount rule does not make the run fail:
\* runBacktest never raises.
C9_NeverRaises == result # "threw"

RecordsOf(s) == {k \in DOMAIN transactions : transactions[k].symbol = s}

RECURSIVE LedgerSum(_, _, _)
\* over the first k records, the sum of the dollars (or of the shares) of the
\* records of symbol s
LedgerSum(s, k, dollars) ==
  IF k = 0 THEN RZero
  ELSE RAdd(LedgerSum(s, k - 1, dollars),
            IF transactions[k].symbol # s THEN RZero
            ELSE IF dollars THEN transactions[k].amount ELSE transactions[k].quantity)

\* the symbol's position was built from buys only: at least one record, each a
\* buy (so never a cover, sell, short or EOD exit)
BuysOnly(s) ==
  /\ RecordsOf(s) # {}
  /\ \A k \in RecordsOf(s) : transactions[k].type = "buy"

\* C11: for a symbol whose position was built only from executed buys, the
\* reported positionAvgCost is the sum of the buys' dollars divided by the sum
\* of the buys' shares.
C11_AverageCostOfBuys ==
  result = "ok" =>
    \A s \in DOMAIN stockData :
      BuysOnly(s) =>
        /\ s \in DOMAIN positionAvgCost
        /\ positionAvgCost[s] =
             RDiv(LedgerSum(s, Len(transactions), TRUE),
                  LedgerSum(s, Len(transactions), FALSE))

C11_Witness ==
  /\ result = "ok"
  /\ BuysOnly("A")
  /\ Cardinality(RecordsOf("A")) = 2
  /\ transactions[1].price = R(80)
  /\ transactions[2].price = R(100)
  /\ transactions[1].amount = R(3000)
  /\ positions["A"] = Rat(135, 2)
  /\ positionAvgCost["A"] = Rat(800, 9)

\* C12: the cost basis of a symbol is positive while its position is net long
\* and negative while it is net short, after every order.
C12_CostSign ==
  \A s \in DOMAIN positions :
    /\ RLt(RZero, positions[s]) => RLt(RZero, Get(positionCost, s))
    /\ RLt(positions[s], RZero) => RLt(Get(positionCost, s), RZero)

\* C15: the Sharpe ratio of a completed run is a defined number, and it is 0
\* when the value history is flat or has a single point.
C15_SharpeDefined ==
  result = "ok" =>
    /\ metrics.sharpeRatio # "NaN"
    /\ (\A i \in DOMAIN valueHistory : valueHistory[i].value = valueHistory[1].value)
         => metrics.sharpeRatio = "0"

\* the symbols whose position a step changes
Moved == {s \in DOMAIN positions' : Get(positions, s) # positions'[s]}

C19_TrackerEmptyAtDayEnd ==
  (pc \in {"mark", "metrics"} \/ result = "ok") => dayTradingPositions = <<>>

\* the position of record k's symbol before record k
PositionBefore(k) ==
  LET earlier == {j \in 1..(k - 1) : transactions[j].symbol = transactions[k].symbol}
  IN  IF earlier = {} THEN RZero
      ELSE transactions[CHOOSE j \in earlier : \A i \in earlier : i <= j].positionAfter

TrailingPairsMove(h, n, dir) ==
  \A k \in (Len(h) - n + 1)..(Len(h) - 1) :
    CASE dir = "up" -> RLt(h[k].close, h[k + 1].close)
      [] dir = "down" -> RLt(h[k + 1].close, h[k].close)
      [] OTHER -> h[k].close = h[k + 1].close

\* C13: checkConsecutiveCondition(history, days, direction) is false on fewer
\* than days bars, and otherwise true exactly when every adjacent pair of closes
\* among the trailing days bars strictly increases (up), strictly decreases
\* (down) or is equal (unchanged).
C13_ConsecutiveExactly ==
  (fnCall.fn = "checkConsecutiveCondition" /\ fnResult.returned) =>
    fnResult.met =
      (/\ Len(fnCall.priceHistory) >= fnCall.days
       /\ TrailingPairsMove(fnCall.priceHistory, fnCall.days, fnCall.direction))

C13_Witness ==
  /\ fnCall.fn = "checkConsecutiveCondition"
  /\ fnResult.returned
  /\ fnCall.days = 3
  /\ fnCall.direction = "up"
  /\ fnCall.priceHistory = <<Bar(0, 10, 10), Bar(0, 11, 11), Bar(0, 12, 12)>>
  /\ fnResult.met

\* the dollars the amount rule asks for before the final check
RuleDollars(a, pv, price) ==
  LET v == IF a.hasValue THEN a.value ELSE IF a.type = "percentage" THEN R(5) ELSE R(100)
  IN  CASE a.type = "percentage" -> RDiv(RMul(pv, v), R(100))
        [] a.type = "shares" -> RMul(v, price)
        [] OTHER -> v

\* C14: calculateAmount returns positive dollars always; for a positive price
\* positive shares worth the dollars, for a price <= 0 exactly $100 and 0
\* shares; the result is either what the rule asks for or the $100 order with
\* 100/price shares; {type: shares, value: 10} at price 0 gives $100, 0 shares.
C14_AmountFloor ==
  (fnCall.fn = "calculateAmount" /\ fnResult.returned) =>
    LET price == fnCall.currentPrice
        floor == [dollars |-> R(100),
                  shares |-> IF RLt(RZero, price) THEN RDiv(R(100), price) ELSE RZero]
        got == [dollars |-> fnResult.dollars, shares |-> fnResult.shares]
    IN  /\ RLt(RZero, got.dollars)
        /\ RLt(RZero, price) => RLt(RZero, got.shares) /\ RMul(got.shares, price) = got.dollars
        /\ RLe(price, RZero) => got = floor
        /\ got # floor =>
             /\ fnCall.amountRule.present
             /\ got.dollars = RuleDollars(fnCall.amountRule, fnCall.portfolioValue, price)
        /\ RLe(RuleDollars(fnCall.amountRule, fnCall.portfolioValue, price), RZero)
             => got = floor
        /\ (fnCall.amountRule = AmountRule("shares", 10) /\ price = RZero)
             => got = [dollars |-> R(100), shares |-> RZero]

C14_Witness ==
  /\ fnCall.fn = "calculateAmount"
  /\ fnResult.returned
  /\ fnCall.amountRule = AmountRule("shares", 10)
  /\ fnCall.currentPrice = RZero
  /\ fnResult.dollars = R(100)
  /\ fnResult.shares = RZero

\* the symbols whose fetch callback has started and not returned
InFlight == {k \in DOMAIN stockSymbols : fetchPhase[k] \in {"delay", "request"}}

\* C17: the fetches run in batches of at most 3: no more than 3 are in flight,
\* all of them in the current batch; every symbol of an earlier batch has
\* settled and none of a later batch has started; runBacktest is called only
\* when every fetch has settled, on the stockData object as it stays from then on.
C17_BatchedFetch ==
  /\ Cardinality(InFlight) <= 3
  /\ InFlight \subseteq {k \in DOMAIN stockSymbols : batchStart < k /\ k <= batchStart + 3}
  /\ InFlight # {} => handlerPc = "awaitBatch"
  /\ \A k \in DOMAIN stockSymbols :
       /\ k <= batchStart => fetchPhase[k] \in Settled
       /\ k > batchStart + 3 => fetchPhase[k] = "notStarted"
  /\ runBacktestArg.called =>
       /\ \A k \in DOMAIN stockSymbols : fetchPhase[k] \in Settled
       /\ runBacktestArg.stockData = handlerStockData

C17_Witness ==
  /\ runBacktestArg.called
  /\ Len(stockSymbols) = 7
  /\ DOMAIN runBacktestArg.stockData = 1..7
  /\ batchStart = 9

HasEarlierBar == \E i \in DOMAIN stockData[symbol] : stockData[symbol][i].date < date

\* C23: a symbol that has a bar on the date and a bar on an earlier date of its
\* own has its actions evaluated on the date, whatever dates other symbols add
\* to the calendar.
C23_EvaluatedOnOwnPrevious ==
  [][(pc = "symbol" /\ currentBar.found /\ HasEarlierBar /\ strategy.actions # <<>>)
       => pc' = "action"]_vars

\* the symbols with an open position
Held == {s \in DOMAIN positions : positions[s] # RZero}

\* C25: mark-to-market: every ValuePoint has value = cash + positions, and the
\* ValuePoint of the date being processed counts every symbol with an open
\* position at quantity times its close for the date: none is left out.
C25_MarkToMarket ==
  /\ \A i \in DOMAIN valueHistory :
       valueHistory[i].value = RAdd(valueHistory[i].cash, valueHistory[i].positions)
  /\ (pc = "symbol" /\ symIdx = 1) =>
       /\ Last(valueHistory).date = date
       /\ Last(valueHistory).cash = cash
       /\ \A s \in Held : FindBar(stockData[s], date).found
       /\ Last(valueHistory).positions =
            SumOver(Held, positions, [s \in Held |-> FindBar(stockData[s], date).bar.close])

\* the action being processed is an explicit short whose condition is met
ShortTriggered == pc = "action" /\ Triggered /\ action.type = "short"

\* C26: an explicit short whose condition is met always executes, whatever the
\* position and the cash: the position goes down by the resolved shares, the
\* cost basis down by the resolved dollars, the cash up by the resolved dollars,
\* and exactly one record of type short, at the close, is appended.
C26_ShortAlwaysExecutes ==
  [][ShortTriggered =>
       /\ positions' = Put(positions, symbol,
                           RSub(Get(positions, symbol), amountData.shares))
       /\ positionCost' = Put(positionCost, symbol,
                              RSub(Get(positionCost, symbol), amountData.dollars))
       /\ cash' = RAdd(cash, amountData.dollars)
       /\ Len(transactions') = Len(transactions) + 1
       /\ SubSeq(transactions', 1, Len(transactions)) = transactions
       /\ Last(transactions').type = "short"
       /\ Last(transactions').symbol = symbol
       /\ Last(transactions').date = date
       /\ Last(transactions').price = currentBar.bar.close
       /\ Last(transactions').quantity = amountData.shares
       /\ Last(transactions').amount = amountData.dollars
       /\ Last(transactions').positionAfter = positions'[symbol]
       /\ Last(transactions').costBasisAfter = positionCost'[symbol]]_vars

\* C27: the type of a record follows the position before the trade: a record a
\* Buy action appends is cover_short when the position was negative and buy
\* otherwise; a record a Sell action appends is sell when the position was
\* positive and short otherwise (flat or short).
C27_TypeFollowsPosition ==
  [][(pc = "action" /\ Len(transactions') = Len(transactions) + 1) =>
       LET before == Get(positions, symbol)
           record == Last(transactions')
       IN  /\ action.type = "buy" =>
                /\ record.type = IF RLt(before, RZero) THEN "cover_short" ELSE "buy"
                /\ record.positionAfter = RAdd(before, record.quantity)
           /\ action.type = "sell" =>
                /\ record.type = IF RLt(RZero, before) THEN "sell" ELSE "short"
                /\ record.positionAfter = RSub(before, record.quantity)]_vars

C27_Witness ==
  /\ result = "ok"
  /\ Len(strategy.actions) = 2
  /\ strategy.actions[1].type = "sell"
  /\ strategy.actions[2].type = "buy"
  /\ Len(transactions) = 4
  /\ transactions[1].type = "short"
  /\ transactions[2].type = "cover_short"
  /\ RLt(RZero, transactions[2].positionAfter)
  /\ transactions[3].type = "sell"
  /\ transactions[4].type = "buy"

\* the calendar of a run: the distinct dates of its bars, the 0-based index of a
\* date in it, and the date at an index
Calendar == UNION {{stockData[s][i].date : i \in DOMAIN stockData[s]} : s \in DOMAIN stockData}
IndexOf(d) == Cardinality({e \in Calendar : e < d})
DateAt(k) == CHOOSE d \in Calendar : IndexOf(d) = k
HasBarOn(s, d) == \E i \in DOMAIN stockData[s] : stockData[s][i].date = d

\* a Monday (days 1, 8, 15, ...), or a first of the month (the 1st of February
\* and of March), lies after the previous calendar date and not after d
NewWeek(d) == \E m \in (DateAt(IndexOf(d) - 1) + 1)..d : m % 7 = 1
NewMonth(d) == \E m \in (DateAt(IndexOf(d) - 1) + 1)..d : m \in {32, 61}

\* an action of the timeframe is due for the symbol on date d
Due(s, d, timeframe) ==
  CASE timeframe = "daily" -> TRUE
    [] timeframe = "weekly" ->
         IndexOf(d) >= 5 /\ NewWeek(d) /\ HasBarOn(s, DateAt(IndexOf(d) - 5))
    [] timeframe = "monthly" ->
         IndexOf(d) >= 20 /\ NewMonth(d) /\ HasBarOn(s, DateAt(IndexOf(d) - 20))
    [] OTHER -> FALSE

\* the step of an action does something: an order, a dropped buy or an exception
Acted ==
  \/ cash' # cash
  \/ positions' # positions
  \/ transactions' # transactions
  \/ insufficientCashLogged' # insufficientCashLogged
  \/ result' = "threw"

C24_HistoryCapped ==
  \A s \in DOMAIN historyData : Len(historyData[s]) <= 30

(***************************************************************************)
(* C29: moving-average crossover conditions                                *)
(***************************************************************************)
IsMaCrossover(condition) ==
  /\ condition.type = "technical"
  /\ condition.indicator = "ma_relative"
  /\ condition.params.valueType = "crossover"
  /\ condition.params.direction \in {"bullish", "bearish"}

\* the close of the latest bar is on the other side of the moving average than
\* the close of the bar before it, above it for bullish and below it for bearish
CrossedOnLatestBar(priceHistory, period, direction) ==
  \E now \in {calculatePriceRelativeToMA(priceHistory, period, Len(priceHistory) - 1)},
     before \in {calculatePriceRelativeToMA(priceHistory, period, Len(priceHistory) - 2)} :
    /\ now.kind = "num"
    /\ before.kind = "num"
    /\ IF direction = "bullish"
       THEN RLe(before.v, RZero) /\ RLt(RZero, now.v)
       ELSE RLe(RZero, before.v) /\ RLt(now.v, RZero)

\* C29: a ma_relative condition with valueType crossover and direction bullish
\* or bearish, evaluated on a history of at least period + 5 bars, returns
\* without raising, and returns true exactly when the price crossed the moving
\* average in that direction on the latest bar
C29_CrossoverResolves ==
  (/\ fnCall.fn = "checkCondition"
   /\ IsMaCrossover(fnCall.condition)
   /\ Len(fnCall.priceHistory) >= OrDefaultInt(fnCall.condition.params.period, 20) + 5
   /\ (fnResult.returned \/ fnResult.threw)) =>
    /\ fnResult.returned
    /\ fnResult.met = CrossedOnLatestBar(fnCall.priceHistory,
                                         OrDefaultInt(fnCall.condition.params.period, 20),
                                         fnCall.condition.params.direction)

\* the table of pattern names: the indicator and the parameters each name
\* stands for, with the thresholds and the period of the pattern condition
\* (1, 3 and 14 when it has none)
C28_Table(condition) ==
  LET th(dflt) == IF condition.threshold = RZero THEN R(dflt) ELSE condition.threshold
      n == IF condition.period = 0 THEN 14 ELSE condition.period
      gap(dir) == Technical("gap", [NoParams EXCEPT !.direction = dir, !.threshold = th(1)],
                            "equal", 1)
      dayTrade(dir) ==
        Technical("day_trading_signal",
                  [NoParams EXCEPT !.gapDirection = dir, !.gapThreshold = th(3)], "equal", 1)
      divergence(dir) ==
        Technical("obv", [NoParams EXCEPT !.valueType = "divergence", !.direction = dir,
                                          !.period = n], "equal", 1)
  IN  [double_bottom |-> Technical("double_bottom", condition.params, "equal", 1),
       gap_down |-> gap("down"),
       gap_up |-> gap("up"),
       day_trade_gap_down |-> dayTrade("down"),
       day_trade_gap_up |-> dayTrade("up"),
       day_trade_gap_any |-> dayTrade("both"),
       obv_positive_divergence |-> divergence("positive"),
       obv_negative_divergence |-> divergence("negative")]

\* C28: a pattern condition is evaluated without an error; a pattern of the
\* table gives what the mapped technical condition gives with operator equal
\* and value 1, whatever operator and value the pattern condition carries, and
\* every other pattern name gives false
C28_PatternsResolveThroughTable ==
  (/\ fnCall.fn = "checkCondition"
   /\ fnCall.condition.type = "pattern"
   /\ (fnResult.returned \/ fnResult.threw)) =>
    /\ fnResult.returned
    /\ fnResult.met =
         IF fnCall.condition.pattern \in DOMAIN C28_Table(fnCall.condition)
         THEN checkTechnicalCondition(C28_Table(fnCall.condition)[fnCall.condition.pattern],
                                      fnCall.priceHistory)
         ELSE FALSE

\* a gap_up pattern met on an opening 1% above the previous close
C28_Witness ==
  /\ fnCall.fn = "checkCondition"
  /\ fnCall.condition.type = "pattern"
  /\ fnCall.condition.pattern = "gap_up"
  /\ fnCall.condition.operator = "less_than"
  /\ fnResult.returned
  /\ fnResult.met

\* the entry for the latest bar of the indicator array a technical condition
\* reads, before checkTechnicalCondition converts or compares it; null where
\* the condition selects no array
C30_Reading(condition, priceHistory) ==
  LET params == condition.params
      last == Len(priceHistory) - 1
      period(dflt) == IF params.period = 0 THEN dflt ELSE params.period
      lookback == IF params.lookback = 0 THEN 5 ELSE params.lookback
      multiplier == IF params.multiplier = RZero THEN R(2) ELSE params.multiplier
      fast == IF params.fastPeriod = 0 THEN 12 ELSE params.fastPeriod
      slow == IF params.slowPeriod = 0 THEN 26 ELSE params.slowPeriod
      sig == IF params.signalPeriod = 0 THEN 9 ELSE params.signalPeriod
      vt == params.valueType
  IN  CASE condition.indicator = "rsi" -> calculateRSI(priceHistory, period(14), last)
        [] condition.indicator = "mfi" -> calculateMFI(priceHistory, period(14), last)
        [] condition.indicator = "mean_reversion" ->
             calculateMeanReversion(priceHistory, period(20), last)
        [] condition.indicator = "ma_relative" /\ vt \in {"", "value"} ->
             calculatePriceRelativeToMA(priceHistory, period(20), last)
        [] condition.indicator = "macd" /\ ~calculateMACDThrows(priceHistory, fast, slow, sig) ->
             CASE vt = "line" -> macdLine(priceHistory, fast, slow, last)
               [] vt = "signal" -> signalLine(priceHistory, fast, slow, sig, last)
               [] vt \in {"", "histogram", "crossover"} ->
                    histogram(priceHistory, fast, slow, sig, last)
               [] OTHER -> NullValue
        [] condition.indicator = "bbands" ->
             CASE vt \in {"", "percent_b", "upper"} ->
                    calculateBollingerBands(priceHistory, period(20), multiplier, last).upper
               [] vt = "lower" ->
                    calculateBollingerBands(priceHistory, period(20), multiplier, last).lower
               [] vt = "width" ->
                    calculateBollingerBands(priceHistory, period(20), multiplier, last).width
               [] vt = "width_change" ->
                    calculateBollingerBandsWidthChange(priceHistory, period(20), multiplier,
                                                       lookback, last)
               [] OTHER -> NullValue
        [] condition.indicator = "obv" ->
             CASE vt \in {"", "value"} -> calculateOBV(priceHistory, last)
               [] vt = "divergence" /\ ~params.slope ->
                    calculateOBVDivergence(priceHistory, period(14), last)
               [] vt \notin {"", "value", "slope", "divergence"} /\ ~params.slope -> NullValue
               [] OTHER -> Val(RZero)
        [] condition.indicator = "atr" ->
             CASE vt \in {"", "value"} -> calculateATR(priceHistory, period(14), last)
               [] vt = "change" -> calculateATRChange(priceHistory, period(14), lookback, last)
               [] OTHER -> NullValue
        [] OTHER -> Val(RZero)

C22_Minimum(condition) ==
  LET params == condition.params
      period(dflt) == IF params.period = 0 THEN dflt ELSE params.period
      fast == IF params.fastPeriod = 0 THEN 12 ELSE params.fastPeriod
      slow == IF params.slowPeriod = 0 THEN 26 ELSE params.slowPeriod
  IN  CASE condition.indicator = "rsi" -> 2 * period(14)
        [] condition.indicator = "macd" -> (IF fast > slow THEN fast ELSE slow) + 10
        [] condition.indicator \in {"ma_relative", "bbands"} -> period(20) + 5
        [] condition.indicator \in {"atr", "mfi"} -> period(14) + 5
        [] condition.indicator = "obv" -> 5
        [] condition.indicator = "volume_change" -> 2
        [] OTHER -> 0

\* C22: while the history of the symbol holds fewer bars than the minimum of
\* the indicator, the step of an action with a technical condition executes no
\* order, drops no buy and raises nothing (an evaluation of the moving-average
\* crossover would raise)
C22_GatedBelowMinimum ==
  [][(/\ pc = "action"
      /\ action.condition.type = "technical"
      /\ Len(historyData[symbol]) < C22_Minimum(action.condition)) => ~Acted]_vars

\* the first order of `buy when rsi(2) >= 0` is on the fourth bar, the minimum
\* of 2 * period, although the RSI has a value from the third bar on
C22_Witness ==
  /\ Len(transactions) = 1
  /\ transactions[1].conditionDetails.type = "technical"
  /\ transactions[1].conditionDetails.indicator = "rsi"
  /\ transactions[1].conditionDetails.params.period = 2
  /\ transactions[1].date = 4
  /\ Len(historyData["A"]) = 4
  /\ calculateRSI(historyData["A"], 2, 2).kind = "num"

\* the highest value among the first i value points
C31_Peak(i) ==
  CHOOSE v \in {valueHistory[j].value : j \in 1..i} :
    \A j \in 1..i : RLe(valueHistory[j].value, v)

\* the drawdown of value point i, in percent of the peak so far
C31_DrawdownAt(i) ==
  RMul(RDiv(RSub(C31_Peak(i), valueHistory[i].value), C31_Peak(i)), R(100))

\* C31: metrics.maxDrawdown of a completed run is the largest drawdown of a
\* value point, the drawdown being taken from the running peak of the value
\* points themselves (the first value point is the first peak)
C31_MaxDrawdown ==
  result = "ok" =>
    /\ \A i \in 1..Len(valueHistory) : RLe(C31_DrawdownAt(i), metrics.maxDrawdown)
    /\ \/ \E i \in 1..Len(valueHistory) : RLe(metrics.maxDrawdown, C31_DrawdownAt(i))
       \/ Len(valueHistory) = 0 /\ metrics.maxDrawdown = RZero

\* a run whose value rose above the initial cash and fell afterwards: the
\* largest drawdown is taken from the later peak
C31_Witness ==
  /\ result = "ok"
  /\ \E i \in 1..Len(valueHistory) :
       /\ RLt(R(initialCash), C31_Peak(i))
       /\ RLt(RZero, C31_DrawdownAt(i))
       /\ RLe(metrics.maxDrawdown, C31_DrawdownAt(i))
       /\ RLt(RMul(RDiv(RSub(R(initialCash), valueHistory[i].value), R(initialCash)), R(100)),
              metrics.maxDrawdown)

\* C32: the cash never goes below zero, and the only steps that lower it are
\* the steps of a buy action whose dollars the cash covers
C32_CashNeverNegative ==
  [][/\ RLe(RZero, cash')
     /\ RLt(cash', cash) =>
          /\ pc = "action"
          /\ action.type = "buy"
          /\ RLe(amountData.dollars, cash)
          /\ cash' = RSub(cash, amountData.dollars)]_vars

\* three buys of 3000 have left 1000 and the fourth was dropped
C32_Witness ==
  /\ cash = R(1000)
  /\ Len(transactions) = 3
  /\ insufficientCashLogged >= 1
  /\ \A i \in DOMAIN transactions : transactions[i].type = "buy"

\* the quantity of a record as it moves the position: bought and covered
\* shares count up, sold and shorted shares count down
C33_Signed(tx) ==
  IF tx.type \in {"buy", "cover_short"} THEN tx.quantity ELSE RNeg(tx.quantity)

RECURSIVE C33_Net(_, _, _)
\* the signed sum of the quantities of the first i records that are of symbol s
C33_Net(txs, s, i) ==
  IF i = 0 THEN RZero
  ELSE IF txs[i].symbol = s
  THEN CHOOSE r \in {RAdd(prev, C33_Signed(txs[i])) : prev \in {C33_Net(txs, s, i - 1)}} : TRUE
  ELSE C33_Net(txs, s, i - 1)

\* C33: the position of every symbol is the signed sum of the quantities of
\* the symbol's records, and the positionAfter of every record is the signed
\* sum up to and including that record
C33_LedgerMatchesPositions ==
  /\ \A s \in DOMAIN stockData :
       Get(positions, s) = C33_Net(transactions, s, Len(transactions))
  /\ \A i \in DOMAIN transactions :
       transactions[i].positionAfter = C33_Net(transactions, transactions[i].symbol, i)

\* the same, as long as the run has not raised
C33_WhileNotRaised == result # "threw" => C33_LedgerMatchesPositions

\* a buy without an amount rule has moved the position and left no record
C33_PositionWithoutRecord ==
  /\ result = "threw"
  /\ transactions = <<>>
  /\ Get(positions, "A") = Rat(5, 4)

\* the amount of a record as it moves the cash: sales and shorts bring it in,
\* buys and covers take it out
C34_Inflow(tx) ==
  IF tx.type \in {"buy", "cover_short"} THEN RNeg(tx.amount) ELSE tx.amount

RECURSIVE C34_Balance(_, _)
\* the initial cash and the amounts of the first i records
C34_Balance(txs, i) ==
  IF i = 0 THEN R(initialCash)
  ELSE CHOOSE r \in {RAdd(prev, C34_Inflow(txs[i])) : prev \in {C34_Balance(txs, i - 1)}} : TRUE

\* C34: the cash is the initial 10000 less the amounts of the buy and
\* cover_short records plus the amounts of the sell and short records, the
\* EOD exits among them
C34_CashConserved == cash = C34_Balance(transactions, Len(transactions))

\* the same, as long as the run has not raised
C34_WhileNotRaised == result # "threw" => C34_CashConserved

\* a short without an amount rule has brought in 100 and left no record
C34_CashWithoutRecord ==
  /\ result = "threw"
  /\ transactions = <<>>
  /\ cash = R(10100)

\* C35: every record has amount = quantity * price
C35_AmountIsQuantityTimesPrice ==
  \A i \in DOMAIN transactions :
    transactions[i].amount = RMul(transactions[i].quantity, transactions[i].price)

\* the same for the records of actions whose condition is not a day-trading
\* gap pattern, and for buys and EOD exits
C35_OutsideDayTradingSales ==
  \A i \in DOMAIN transactions :
    (\/ transactions[i].isEodExit
     \/ transactions[i].type \in {"buy", "cover_short"}
     \/ ~(/\ transactions[i].conditionDetails.type = "pattern"
          /\ transactions[i].conditionDetails.pattern \in DayTradePatterns)) =>
      transactions[i].amount = RMul(transactions[i].quantity, transactions[i].price)

\* a short on a day-trading gap pattern sized at the open of 193 and recorded
\* at the close of 190: 200 dollars for 200/193 shares
C35_ShortSizedAtOpen ==
  /\ Len(transactions) = 1
  /\ transactions[1].type = "short"
  /\ transactions[1].conditionDetails.type = "pattern"
  /\ transactions[1].price = R(190)
  /\ transactions[1].quantity = Rat(200, 193)
  /\ transactions[1].amount = R(200)

\* the cash after the records of the dates before d: the ledger is in date
\* order, so these are its first records
C36_CashBefore(d) ==
  C34_Balance(transactions,
              Cardinality({i \in DOMAIN transactions : transactions[i].date < d}))

\* C36: the cash field of the ValuePoint of a date is the cash left by the
\* records of the earlier dates (10000 on the first date): no order and no EOD
\* exit of the date itself is in it, and so none of the last date is in any
\* ValuePoint
C36_ValuePointBeforeOrders ==
  /\ \A i \in DOMAIN valueHistory :
       valueHistory[i].cash = C36_CashBefore(valueHistory[i].date)
  /\ valueHistory # <<>> => valueHistory[1].cash = R(initialCash)
  /\ \A i \in DOMAIN transactions :
       \E k \in DOMAIN valueHistory : valueHistory[k].date = transactions[i].date

\* a completed run with an order on its last date: the last ValuePoint still
\* shows the cash from before that order
C36_Witness ==
  /\ result = "ok"
  /\ transactions # <<>>
  /\ Last(transactions).date = Last(valueHistory).date
  /\ Last(valueHistory).cash # cash
  /\ Last(valueHistory).cash # R(initialCash)

\* the gap of the latest bar: its open against the previous close, in percent
C37_GapPercent(priceHistory) ==
  LET n == Len(priceHistory)
  IN  RMul(RDiv(RSub(priceHistory[n].open, priceHistory[n - 1].close),
                priceHistory[n - 1].close), R(100))

C38_CompleteData ==
  \A s \in DOMAIN stockData : \A d \in AllDates(stockData) : FindBar(stockData[s], d).found

\* the technical conditions whose minimum history is above the 30 bars the
\* buffer keeps: a MACD whose longer period is above 20, and the indicators
\* without a minimum of their own
C38_BeyondBuffer(condition) ==
  /\ condition.type = "technical"
  /\ \/ /\ condition.indicator = "macd"
        /\ \E fast \in {IF condition.params.fastPeriod = 0 THEN 12
                        ELSE condition.params.fastPeriod},
              slow \in {IF condition.params.slowPeriod = 0 THEN 26
                        ELSE condition.params.slowPeriod} :
             fast + 10 > 30 \/ slow + 10 > 30
     \/ condition.indicator \in {"gap", "double_bottom", "mean_reversion", "day_trading_signal"}

C39_ProfitLossOfExit ==
  \A i \in DOMAIN transactions :
    transactions[i].isEodExit =>
      transactions[i].profitLoss =
        RMul(transactions[i].quantity,
             RSub(transactions[i].exitPrice, transactions[i].entryPrice))

\* the same for the exits that sell exactly the shares of the day-trading
\* entry recorded just before them
C39_ExitOfEntryAlone ==
  \A i \in DOMAIN transactions :
    (/\ transactions[i].isEodExit
     /\ i > 1
     /\ transactions[i - 1].isDayTrading
     /\ transactions[i - 1].type = "buy"
     /\ transactions[i - 1].quantity = transactions[i].quantity) =>
      transactions[i].profitLoss =
        RMul(transactions[i].quantity,
             RSub(transactions[i].exitPrice, transactions[i].entryPrice))

\* 1.9 shares bought at 200, then a day-trading entry of 200/193 shares at
\* the open of 193; the exit sells both at 200 and records the whole proceeds
\* less the 200 of the entry as profit
C39_ExitOfLargerPosition ==
  /\ Len(transactions) >= 3
  /\ transactions[1].type = "buy" /\ transactions[1].quantity = Rat(19, 10)
  /\ transactions[2].isDayTrading /\ transactions[2].quantity = Rat(200, 193)
  /\ transactions[3].isEodExit
  /\ transactions[3].quantity = RAdd(Rat(19, 10), Rat(200, 193))
  /\ transactions[3].entryPrice = R(193)
  /\ transactions[3].exitPrice = R(200)
  /\ transactions[3].profitLoss = RSub(RMul(transactions[3].quantity, R(200)), R(200))

====
